---- MODULE Spec2Model ----
(***************************************************************************)
(* A model of the Memory Bank starter's command line tools:                *)
(*   init-memory-bank.js  (the scaffolder, initMemoryBank),                *)
(*   memory-search.js     (the search script the scaffolder generates),    *)
(*   memory-update.js     (the indexer).                                   *)
(* Strings are sequences of one-character strings, so that the string      *)
(* operations of the code (toLowerCase, includes, split, trim, replace,    *)
(* the regular expressions) are computed and not assumed.  A directory     *)
(* tree is a function from relative paths (sequences of names) to nodes;   *)
(* the path <<>> is the root directory, and a tree without it is absent.   *)
(***************************************************************************)
EXTENDS Integers, Sequences, FiniteSets, TLC

(***************************************************************************)
(* Strings                                                                 *)
(***************************************************************************)
Upper == <<"A","B","C","D","E","F","G","H","I","J","K","L","M","N","O","P","Q","R","S","T","U","V","W","X","Y","Z">>

LowerLetters == <<"a","b","c","d","e","f","g","h","i","j","k","l","m","n","o","p","q","r","s","t","u","v","w","x","y","z">>

\* String.prototype.toLowerCase, one character
LowerChar(c) ==
  IF \E i \in 1..Len(Upper) : Upper[i] = c
  THEN LowerLetters[CHOOSE i \in 1..Len(Upper) : Upper[i] = c]
  ELSE c

\* String.prototype.toLowerCase
ToLowerCase(s) == [i \in 1..Len(s) |-> LowerChar(s[i])]

\* does t occur in s at position i
OccursAt(s, t, i) ==
  /\ i >= 1
  /\ i + Len(t) - 1 <= Len(s)
  /\ \A k \in 1..Len(t) : s[i + k - 1] = t[k]

\* String.prototype.includes
Includes(s, t) == \E i \in 1..(Len(s) + 1) : OccursAt(s, t, i)

\* String.prototype.startsWith
StartsWith(s, t) == OccursAt(s, t, 1)

\* String.prototype.endsWith
EndsWith(s, t) == OccursAt(s, t, Len(s) - Len(t) + 1)

RECURSIVE Concat(_)
\* the concatenation of a sequence of strings
Concat(ss) == IF ss = <<>> THEN <<>> ELSE Head(ss) \o Concat(Tail(ss))

\* the elements of a sequence
Range(seq) == {seq[k] : k \in 1..Len(seq)}

WhiteSpace == {" ", "\t", "\n", "\r"}

LineTerminators == {"\n", "\r"}

\* the least position k >= i of s whose character is in set (Len(s) + 1 if none)
FirstIn(s, i, set) ==
  IF \E k \in i..Len(s) : s[k] \in set
  THEN CHOOSE k \in i..Len(s) :
         /\ s[k] \in set
         /\ \A m \in i..(k - 1) : s[m] \notin set
  ELSE Len(s) + 1

\* the least position k >= i of s whose character is not in set
FirstNotIn(s, i, set) ==
  IF \E k \in i..Len(s) : s[k] \notin set
  THEN CHOOSE k \in i..Len(s) :
         /\ s[k] \notin set
         /\ \A m \in i..(k - 1) : s[m] \in set
  ELSE Len(s) + 1

\* the greatest position k <= Len(s) whose character is not in set (0 if none)
LastNotIn(s, set) ==
  IF \E k \in 1..Len(s) : s[k] \notin set
  THEN CHOOSE k \in 1..Len(s) :
         /\ s[k] \notin set
         /\ \A m \in (k + 1)..Len(s) : s[m] \in set
  ELSE 0

\* String.prototype.trim
Trim(s) == SubSeq(s, FirstNotIn(s, 1, WhiteSpace), LastNotIn(s, WhiteSpace))

RECURSIVE Split(_, _)
\* String.prototype.split(c), c one character
Split(s, c) ==
  IF FirstIn(s, 1, {c}) > Len(s) THEN <<s>>
  ELSE <<SubSeq(s, 1, FirstIn(s, 1, {c}) - 1)>>
         \o Split(SubSeq(s, FirstIn(s, 1, {c}) + 1, Len(s)), c)

(***************************************************************************)
(* Regular expressions of the scaffolder: escapeRegExp, new RegExp(p, 'g') *)
(* and String.prototype.replace with a replacement string.                 *)
(***************************************************************************)
RegExpSpecial == {".", "*", "+", "?", "^", "$", "{", "}", "(", ")", "|", "[", "]", "\\"}

\* escapeRegExp: string.replace(/[.*+?^${}()|[\]\\]/g, '\\$&')
EscapeRegExp(string) ==
  Concat([i \in 1..Len(string) |->
            IF string[i] \in RegExpSpecial THEN <<"\\", string[i]>> ELSE <<string[i]>>])

\* the position of the first "]" of p at or after i (Len(p) + 1 if none)
RECURSIVE ClassEnd(_, _)
ClassEnd(p, i) ==
  IF i > Len(p) THEN Len(p) + 1
  ELSE IF p[i] = "]" THEN i
  ELSE ClassEnd(p, i + 1)

\* new RegExp(p): the pattern as a sequence of atoms, each the set of
\* characters it matches.  "\c" is the character c, "[...]" is a character
\* class, any other character is itself.
RECURSIVE RegExpAtoms(_, _)
RegExpAtoms(p, i) ==
  IF i > Len(p) THEN <<>>
  ELSE IF p[i] = "\\" /\ i < Len(p)
    THEN <<{p[i + 1]}>> \o RegExpAtoms(p, i + 2)
  ELSE IF p[i] = "[" /\ ClassEnd(p, i + 1) <= Len(p)
    THEN <<{p[k] : k \in (i + 1)..(ClassEnd(p, i + 1) - 1)}>>
           \o RegExpAtoms(p, ClassEnd(p, i + 1) + 1)
  ELSE <<{p[i]}>> \o RegExpAtoms(p, i + 1)

\* the pattern matches s at position i
MatchesAt(atoms, s, i) ==
  /\ i + Len(atoms) - 1 <= Len(s)
  /\ \A k \in 1..Len(atoms) : s[i + k - 1] \in atoms[k]

\* the replacement string with its $ patterns expanded: $$ is "$", $& the
\* match, $` the text before the match, $' the text after it
RECURSIVE ExpandReplacement(_, _, _, _, _)
ExpandReplacement(value, i, matched, before, after) ==
  IF i > Len(value) THEN <<>>
  ELSE IF value[i] = "$" /\ i < Len(value) /\ value[i + 1] = "$"
    THEN <<"$">> \o ExpandReplacement(value, i + 2, matched, before, after)
  ELSE IF value[i] = "$" /\ i < Len(value) /\ value[i + 1] = "&"
    THEN matched \o ExpandReplacement(value, i + 2, matched, before, after)
  ELSE IF value[i] = "$" /\ i < Len(value) /\ value[i + 1] = "`"
    THEN before \o ExpandReplacement(value, i + 2, matched, before, after)
  ELSE IF value[i] = "$" /\ i < Len(value) /\ value[i + 1] = "'"
    THEN after \o ExpandReplacement(value, i + 2, matched, before, after)
  ELSE <<value[i]>> \o ExpandReplacement(value, i + 1, matched, before, after)

\* content.replace(new RegExp(pattern, 'g'), value), scanning from i
RECURSIVE ReplaceFrom(_, _, _, _)
ReplaceFrom(content, atoms, value, i) ==
  IF i > Len(content) THEN <<>>
  ELSE IF Len(atoms) > 0 /\ MatchesAt(atoms, content, i)
    THEN ExpandReplacement(value, 1,
                           SubSeq(content, i, i + Len(atoms) - 1),
                           SubSeq(content, 1, i - 1),
                           SubSeq(content, i + Len(atoms), Len(content)))
           \o ReplaceFrom(content, atoms, value, i + Len(atoms))
  ELSE <<content[i]>> \o ReplaceFrom(content, atoms, value, i + 1)

\* the replacement without the g flag: only the first occurrence is replaced
RECURSIVE ReplaceFirstFrom(_, _, _, _)
ReplaceFirstFrom(content, atoms, value, i) ==
  IF i > Len(content) THEN <<>>
  ELSE IF Len(atoms) > 0 /\ MatchesAt(atoms, content, i)
    THEN ExpandReplacement(value, 1,
                           SubSeq(content, i, i + Len(atoms) - 1),
                           SubSeq(content, 1, i - 1),
                           SubSeq(content, i + Len(atoms), Len(content)))
           \o SubSeq(content, i + Len(atoms), Len(content))
  ELSE <<content[i]>> \o ReplaceFirstFrom(content, atoms, value, i + 1)

ReplacePlaceholderFirst(content, placeholder, value) ==
  ReplaceFirstFrom(content, RegExpAtoms(EscapeRegExp(placeholder), 1), value, 1)

\* content.replace(new RegExp(escapeRegExp(placeholder), 'g'), value)
ReplacePlaceholder(content, placeholder, value) ==
  ReplaceFrom(content, RegExpAtoms(EscapeRegExp(placeholder), 1), value, 1)

(***************************************************************************)
(* Names, paths and directory trees                                        *)
(***************************************************************************)
ExtMd == <<".","m","d">>

ExtJson == <<".","j","s","o","n">>

NameContext == <<"c","o","n","t","e","x","t">>

NameActiveMd == <<"a","c","t","i","v","e",".","m","d">>

NameAMd == <<"a",".","m","d">>

NameCTxt == <<"c",".","t","x","t">>

NameSub == <<"s","u","b">>

NameBJson == <<"b",".","j","s","o","n">>

NameOldMd == <<"o","l","d",".","m","d">>

NameHidden == <<".","h">>

NameDocs == <<"d","o","c","s">>

NameBMd == <<"b",".","m","d">>

NameHiddenMd == <<".","x",".","m","d">>

\* .index.json, the file the indexer writes at the root of memory-bank
NameIndexJson == <<".","i","n","d","e","x",".","j","s","o","n">>

NameBar == <<"b","a","r">>

NameBaz == <<"b","a","z">>

NameFoo == <<"f","o","o">>

\* the entries of the project directory, __dirname/..
NameMemoryBank == <<"m","e","m","o","r","y","-","b","a","n","k">>

NamePackageJson == <<"p","a","c","k","a","g","e",".","j","s","o","n">>

NameScripts == <<"s","c","r","i","p","t","s">>

NameSearchJs ==
  <<"m","e","m","o","r","y","-","s","e","a","r","c","h",".","j","s">>

\* the order in which readdirSync lists the entries of a directory
DirOrder ==
  <<NameAMd, NameBJson, NameBMd, NameCTxt, NameContext, NameDocs, NameHidden,
    NameOldMd, NameSub, NameActiveMd, NameHiddenMd, NameIndexJson, NameBar,
    NameBaz, NameFoo, NameMemoryBank, NamePackageJson, NameScripts,
    NameSearchJs>>

Dir == [isDir |-> TRUE, content |-> <<>>]

File(content) == [isDir |-> FALSE, content |-> content]

\* a directory that does not exist
NoTree == <<>>

\* fs.existsSync of the root of a tree
Exists(tree) == <<>> \in DOMAIN tree

IsDirectory(tree, p) == p \in DOMAIN tree /\ tree[p].isDir

IsFile(tree, p) == p \in DOMAIN tree /\ ~tree[p].isDir

Put(tree, p, node) ==
  [q \in (DOMAIN tree) \cup {p} |-> IF q = p THEN node ELSE tree[q]]

\* fs.readdirSync(dir): the names of the entries of dir
Readdir(tree, dir) ==
  SelectSeq(DirOrder, LAMBDA n : Append(dir, n) \in DOMAIN tree)

\* fs.mkdirSync(p, { recursive: true })
MkdirRecursive(tree, p) ==
  [q \in (DOMAIN tree) \cup {SubSeq(p, 1, k) : k \in 0..Len(p)} |->
     IF q \in DOMAIN tree THEN tree[q] ELSE Dir]

\* fs.writeFileSync(p, content) succeeds: the parent is a directory and p is
\* not one
CanWriteFile(tree, p) ==
  /\ Len(p) > 0
  /\ IsDirectory(tree, SubSeq(p, 1, Len(p) - 1))
  /\ ~IsDirectory(tree, p)

\* fs.rmSync(dir, { recursive: true, force: true })
RmRecursive(tree) == NoTree

\* `${category}/${file}`, and path.join of a relative path with a name
JoinPath(category, file) ==
  IF category = <<>> THEN file ELSE category \o <<"/">> \o file

RECURSIVE RelativePath(_)
\* path.relative(memoryBankDir, filePath): the names joined with "/"
RelativePath(p) ==
  IF p = <<>> THEN <<>>
  ELSE JoinPath(RelativePath(SubSeq(p, 1, Len(p) - 1)), p[Len(p)])

(***************************************************************************)
(* The scaffolder's helpers: copyDirectory, replaceInDirectory             *)
(***************************************************************************)
RECURSIVE CopyEntries(_, _, _, _, _)
\* copyDirectory, the loop over the entries of src
CopyEntries(srcTree, src, destTree, dest, entries) ==
  IF entries = <<>> THEN destTree
  ELSE
    LET srcPath == Append(src, Head(entries))
        destPath == Append(dest, Head(entries))
        copied ==
          IF srcTree[srcPath].isDir
          THEN CopyEntries(srcTree, srcPath,
                           MkdirRecursive(destTree, destPath), destPath,
                           Readdir(srcTree, srcPath))
          ELSE Put(destTree, destPath, File(srcTree[srcPath].content))
    IN CopyEntries(srcTree, src, copied, dest, Tail(entries))

\* a copy that creates the subdirectories and does not descend into them
CopyDirectoryShallow(srcTree, src, destTree, dest) ==
  LET names == {n \in {DirOrder[i] : i \in 1..Len(DirOrder)} :
                  Append(src, n) \in DOMAIN srcTree}
      made == MkdirRecursive(destTree, dest)
  IN [q \in (DOMAIN made) \cup {Append(dest, n) : n \in names} |->
        IF \E n \in names : q = Append(dest, n)
        THEN LET n == CHOOSE n \in names : q = Append(dest, n)
             IN IF srcTree[Append(src, n)].isDir THEN Dir
                ELSE File(srcTree[Append(src, n)].content)
        ELSE made[q]]

\* copyDirectory(src, dest) of an existing src
CopyDirectory(srcTree, src, destTree, dest) ==
  CopyEntries(srcTree, src, MkdirRecursive(destTree, dest), dest,
              Readdir(srcTree, src))

RECURSIVE ApplyReplacements(_, _)
\* Object.entries(replacements).forEach(... content = content.replace(...))
ApplyReplacements(content, replacements) ==
  IF replacements = <<>> THEN content
  ELSE ApplyReplacements(
         ReplacePlaceholder(content, Head(replacements)[1], Head(replacements)[2]),
         Tail(replacements))

\* the files replaceInDirectory rewrites
IsTextName(file) == EndsWith(file, ExtMd) \/ EndsWith(file, ExtJson)

RECURSIVE ReplaceEntries(_, _, _, _)
\* replaceInDirectory, the loop over the entries of dir
ReplaceEntries(tree, dir, replacements, files) ==
  IF files = <<>> THEN tree
  ELSE
    LET filePath == Append(dir, Head(files))
        done ==
          IF tree[filePath].isDir
          THEN ReplaceEntries(tree, filePath, replacements, Readdir(tree, filePath))
          ELSE IF IsTextName(Head(files))
          THEN Put(tree, filePath,
                   File(ApplyReplacements(tree[filePath].content, replacements)))
          ELSE tree
    IN ReplaceEntries(done, dir, replacements, Tail(files))

\* replaceInDirectory(dir, replacements)
ReplaceInDirectory(tree, dir, replacements) ==
  ReplaceEntries(tree, dir, replacements, Readdir(tree, dir))

(***************************************************************************)
(* The scaffolder's constants                                              *)
(***************************************************************************)
TokProjectName == <<"[","P","R","O","J","E","C","T","_","N","A","M","E","]">>

TokProjectDescription == <<"[","P","R","O","J","E","C","T","_","D","E","S","C","R","I","P","T","I","O","N","]">>

TokArchitectureType == <<"[","Y","o","u","r"," ","A","r","c","h","i","t","e","c","t","u","r","e"," ","T","y","p","e","]">>

TokArchitectureTypeLower == <<"[","Y","o","u","r"," ","a","r","c","h","i","t","e","c","t","u","r","e"," ","t","y","p","e","]">>

TokFramework == <<"[","Y","o","u","r"," ","f","r","a","m","e","w","o","r","k","]">>

TokLanguage == <<"[","P","r","i","m","a","r","y"," ","l","a","n","g","u","a","g","e","]">>

TokDate == <<"[","D","A","T","E","]">>

TokYMD == <<"[","Y","Y","Y","Y","-","M","M","-","D","D","]">>

TokPort == <<"[","P","O","R","T","]">>

TokDomain == <<"[","Y","O","U","R","_","D","O","M","A","I","N","]">>

\* the replacements object, in the order of its keys
Replacements(a, date) ==
  << <<TokProjectName, a.projectName>>,
     <<TokProjectDescription, a.projectDescription>>,
     <<TokArchitectureType, a.architecture>>,
     <<TokArchitectureTypeLower, ToLowerCase(a.architecture)>>,
     <<TokFramework, a.framework>>,
     <<TokLanguage, a.language>>,
     <<TokDate, date>>,
     <<TokYMD, date>>,
     <<TokPort, <<"3","0","0","0">> >>,
     <<TokDomain, <<"a","p","i",".","e","x","a","m","p","l","e",".","c","o","m">> >> >>

\* the text of context/active.md
ActiveContext(a, date) ==
  <<"#"," ","A","c","t","i","v","e"," ","D","e","v","e","l","o","p","m","e",
    "n","t"," ","C","o","n","t","e","x","t","\n","\n","#","#"," ","C","u","r",
    "r","e","n","t"," ","S","p","r","i","n","t","\n","-"," ","S","p","r","i",
    "n","t",":"," ","1","\n","-"," ","S","t","a","r","t"," ","D","a","t","e",
    ":"," ">>
  \o date \o
  <<"\n","-"," ","F","o","c","u","s",":"," ","I","n","i","t","i","a","l"," ",
    "s","e","t","u","p"," ","a","n","d"," ","f","o","u","n","d","a","t","i",
    "o","n","\n","\n","#","#"," ","C","u","r","r","e","n","t"," ","T","a","s",
    "k","s","\n","-"," ","S","e","t"," ","u","p"," ","d","e","v","e","l","o",
    "p","m","e","n","t"," ","e","n","v","i","r","o","n","m","e","n","t","\n",
    "-"," ","D","e","f","i","n","e"," ","i","n","i","t","i","a","l"," ","a",
    "r","c","h","i","t","e","c","t","u","r","e","\n","-"," ","C","r","e","a",
    "t","e"," ","b","a","s","i","c"," ","p","r","o","j","e","c","t"," ","s",
    "t","r","u","c","t","u","r","e","\n","\n","#","#"," ","R","e","c","e","n",
    "t"," ","D","e","c","i","s","i","o","n","s","\n","-"," ","C","h","o","s",
    "e"," ">>
  \o a.architecture \o
  <<" ","a","r","c","h","i","t","e","c","t","u","r","e","\n","-"," ","S","e",
    "l","e","c","t","e","d"," ">>
  \o a.framework \o
  <<" ","a","s"," ","p","r","i","m","a","r","y"," ","f","r","a","m","e","w",
    "o","r","k","\n","-"," ","U","s","i","n","g"," ">>
  \o a.language \o
  <<" ","a","s"," ","p","r","i","m","a","r","y"," ","l","a","n","g","u","a",
    "g","e","\n","\n","#","#"," ","N","o","t","e","s","\n","-"," ","P","r","o",
    "j","e","c","t"," ","i","n","i","t","i","a","l","i","z","e","d"," ","o",
    "n"," ">>
  \o date \o
  <<"\n","-"," ","S","e","e"," ","p","r","o","j","e","c","t","B","r","i","e",
    "f",".","m","d"," ","f","o","r"," ","f","u","l","l"," ","p","r","o","j",
    "e","c","t"," ","d","e","t","a","i","l","s","\n","\n","-","-","-","\n","\n",
    "*","L","a","s","t"," ","U","p","d","a","t","e","d",":"," ">>
  \o date \o <<"*">>

ActivePath == <<NameContext, NameActiveMd>>

\* the scripts Object.assign adds to packageJson.scripts
MemoryScripts ==
  [k \in {"memory:search", "memory:browse", "memory:overview", "memory:update"} |->
     CASE k = "memory:search" -> "node scripts/memory-search.js"
       [] k = "memory:browse" -> "node scripts/memory-browse.js"
       [] k = "memory:overview" -> "node scripts/memory-overview.js"
       [] k = "memory:update" -> "node scripts/memory-update.js"]

\* an assignment that replaces the target object by the source
ObjectAssignReplaces(target, source) == source

\* Object.assign(target, source)
ObjectAssign(target, source) ==
  [k \in (DOMAIN target) \cup (DOMAIN source) |->
     IF k \in DOMAIN source THEN source[k] ELSE target[k]]

\* a prompt that overwrites unless the answer is n
ConfirmedUnlessNo(overwrite) == ToLowerCase(overwrite) # <<"n">>

\* overwrite.toLowerCase() !== 'y' is false: the user confirmed
Confirmed(overwrite) == ToLowerCase(overwrite) = <<"y">>

(***************************************************************************)
(* State                                                                   *)
(***************************************************************************)
VARIABLES
  pc,          \* the position of the running tool ("shell": none is running)
  answers,     \* initMemoryBank: the answers to the five questions
  date,        \* initMemoryBank: const date
  overwrite,   \* initMemoryBank: the overwrite prompt and its answer
  template,    \* the tree of __dirname/memory-bank-template
  memoryBank,  \* the tree of __dirname/memory-bank
  packageJson, \* __dirname/package.json
  scriptsDir,  \* __dirname/scripts
  console,     \* what the tool has printed
  exitCode,    \* the exit status of the process
  pre,         \* the file system when the tool started
  argv,        \* memory-search.js: process.argv[2]
  results,     \* memory-search.js: const results
  indexFile    \* memory-bank/.index.json, written by memory-update.js

vars ==
  <<pc, answers, date, overwrite, template, memoryBank, packageJson, scriptsDir,
    console, exitCode, pre, argv, results, indexFile>>

\* the variables of the scaffolder alone
scaffoldVars == <<answers, date, overwrite, template, packageJson, scriptsDir>>

\* the variables of the memory bank scripts alone
toolVars == <<argv, results, indexFile>>

\* no index has been written
NoIndex == [written |-> FALSE]

(***************************************************************************)
(* The inputs of the scaffolder                                            *)
(***************************************************************************)
Foo == <<"F","o","o">>

ProjectNames == {Foo, <<"$","&">>}

ProjectDescriptions == {<<"d","o","c","s">>, TokProjectName}

Architectures == {<<"H","e","x">>, TokProjectName}

Frameworks == {<<"n","e","x","t">>, <<>>}

Languages == {<<"g","o">>}

Dates == {<<"2","0","2","6","-","1","1","-","0","1">>}

OverwriteAnswers == {<<"y">>, <<"Y">>, <<"n">>, <<>>, <<"y","e","s">>}

NoAnswers ==
  [projectName |-> <<>>, projectDescription |-> <<>>, architecture |-> <<>>,
   framework |-> <<>>, language |-> <<>>]

MdTexts ==
  { <<"H","i"," ">> \o TokProjectName \o <<"!">>,
    TokProjectName \o TokProjectDescription \o TokProjectName,
    <<"[","P","R","O","J","E","C","T">> \o TokFramework \o <<"_","N","A","M","E","]">>,
    <<"k","e","p","t">> }

JsonTexts ==
  { TokArchitectureType \o <<"/">> \o TokArchitectureTypeLower,
    <<"{">> \o TokProjectName \o <<":">> \o TokProjectName \o <<"}">> }

TemplateTree(md, json, hasContext) ==
  LET top == IF hasContext THEN <<NameContext>> ELSE <<>>
  IN (<<>> :> Dir)
       @@ (<<NameAMd>> :> File(md))
       @@ (<<NameCTxt>> :> File(TokProjectName))
       @@ (top :> Dir)
       @@ (Append(top, NameSub) :> Dir)
       @@ (Append(Append(top, NameSub), NameBJson) :> File(json))

Templates ==
  {NoTree} \cup {TemplateTree(md, json, c) : md \in MdTexts, json \in JsonTexts, c \in BOOLEAN}

OldBank ==
  (<<>> :> Dir)
    @@ (<<NameOldMd>> :> File(<<"o","l","d">>))
    @@ (<<NameAMd>> :> File(<<"s","t","a","l","e">>))

NoScripts == [k \in {} |-> ""]

PackageJsons ==
  { [kind |-> "absent", hasScripts |-> FALSE, scripts |-> NoScripts, name |-> ""],
    [kind |-> "invalid", hasScripts |-> FALSE, scripts |-> NoScripts, name |-> ""],
    [kind |-> "object", hasScripts |-> FALSE, scripts |-> NoScripts, name |-> "app"],
    [kind |-> "object", hasScripts |-> TRUE,
     scripts |-> ("test" :> "jest") @@ ("memory:search" :> "old"), name |-> "app"] }

ScriptsDirs ==
  { [exists |-> FALSE, search |-> "none", mode |-> "none"],
    [exists |-> TRUE, search |-> "old", mode |-> "644"] }

InitScaffold ==
  /\ pc = "questions"
  /\ answers = NoAnswers
  /\ date = <<>>
  /\ overwrite = [asked |-> FALSE, answer |-> <<>>]
  /\ template \in Templates
  /\ memoryBank \in {NoTree, OldBank}
  /\ packageJson \in PackageJsons
  /\ scriptsDir \in ScriptsDirs
  /\ console = <<>>
  /\ exitCode = 0
  /\ pre = [memoryBank |-> memoryBank, packageJson |-> packageJson,
            scriptsDir |-> scriptsDir, indexFile |-> NoIndex]
  /\ argv = <<>>
  /\ results = <<>>
  /\ indexFile = NoIndex

(***************************************************************************)
(* initMemoryBank                                                          *)
(***************************************************************************)
\* lines 18-24: the five questions and the date
AskQuestions ==
  /\ pc = "questions"
  /\ \E n \in ProjectNames, d \in ProjectDescriptions, a \in Architectures,
        f \in Frameworks, l \in Languages :
       answers' = [projectName |-> n, projectDescription |-> d,
                   architecture |-> a, framework |-> f, language |-> l]
  /\ date' \in Dates
  /\ pc' = "exists"
  /\ UNCHANGED <<overwrite, template, memoryBank, packageJson, scriptsDir,
                 console, exitCode, pre, toolVars>>

\* line 31, the directory does not exist
TargetAbsent ==
  /\ pc = "exists"
  /\ ~Exists(memoryBank)
  /\ pc' = "copy"
  /\ UNCHANGED <<answers, date, overwrite, template, memoryBank, packageJson,
                 scriptsDir, console, exitCode, pre, toolVars>>

\* the overwrite prompt without the return of line 36
AskOverwriteNoReturn ==
  /\ pc = "exists"
  /\ Exists(memoryBank)
  /\ \E a \in OverwriteAnswers :
       /\ overwrite' = [asked |-> TRUE, answer |-> a]
       /\ console' = IF ~Confirmed(a)
                     THEN Append(console, "Initialization cancelled.")
                     ELSE console
  /\ memoryBank' = RmRecursive(memoryBank)
  /\ pc' = "copy"
  /\ UNCHANGED <<answers, date, template, packageJson, scriptsDir, exitCode, pre, toolVars>>

\* the overwrite prompt without the rmSync of line 39
AskOverwriteKeepsOld ==
  /\ pc = "exists"
  /\ Exists(memoryBank)
  /\ \E a \in OverwriteAnswers :
       /\ overwrite' = [asked |-> TRUE, answer |-> a]
       /\ IF ~Confirmed(a)
          THEN /\ console' = Append(console, "Initialization cancelled.")
               /\ pc' = "returned"
          ELSE /\ pc' = "copy"
               /\ UNCHANGED console
  /\ UNCHANGED <<answers, date, template, memoryBank, packageJson, scriptsDir,
                 exitCode, pre, toolVars>>

\* lines 31-40: the overwrite prompt
AskOverwrite ==
  /\ pc = "exists"
  /\ Exists(memoryBank)
  /\ \E a \in OverwriteAnswers :
       /\ overwrite' = [asked |-> TRUE, answer |-> a]
       /\ IF ~Confirmed(a)
          THEN /\ console' = Append(console, "Initialization cancelled.")
               /\ pc' = "returned"
               /\ UNCHANGED memoryBank
          ELSE /\ memoryBank' = RmRecursive(memoryBank)
               /\ pc' = "copy"
               /\ UNCHANGED console
  /\ UNCHANGED <<answers, date, template, packageJson, scriptsDir, exitCode, pre, toolVars>>

\* line 43: copyDirectory(templateDir, targetDir); mkdirSync(dest) comes
\* before readdirSync(src), which throws when the template is missing
CopyTemplate ==
  /\ pc = "copy"
  /\ IF Exists(template)
     THEN /\ memoryBank' = CopyDirectory(template, <<>>, memoryBank, <<>>)
          /\ pc' = "replace"
     ELSE /\ memoryBank' = MkdirRecursive(memoryBank, <<>>)
          /\ pc' = "thrown"
  /\ UNCHANGED <<answers, date, overwrite, template, packageJson, scriptsDir,
                 console, exitCode, pre, toolVars>>

\* lines 46-59
ReplacePlaceholders ==
  /\ pc = "replace"
  /\ memoryBank' = ReplaceInDirectory(memoryBank, <<>>, Replacements(answers, date))
  /\ pc' = "active"
  /\ UNCHANGED <<answers, date, overwrite, template, packageJson, scriptsDir,
                 console, exitCode, pre, toolVars>>

\* lines 62-87: writeFileSync throws when context is not a directory
WriteActiveContext ==
  /\ pc = "active"
  /\ IF CanWriteFile(memoryBank, ActivePath)
     THEN /\ memoryBank' = Put(memoryBank, ActivePath, File(ActiveContext(answers, date)))
          /\ pc' = "package"
     ELSE /\ pc' = "thrown"
          /\ UNCHANGED memoryBank
  /\ UNCHANGED <<answers, date, overwrite, template, packageJson, scriptsDir,
                 console, exitCode, pre, toolVars>>

\* lines 90-107: JSON.parse throws on a file that is not JSON
UpdatePackageJson ==
  /\ pc = "package"
  /\ CASE packageJson.kind = "absent" ->
            /\ pc' = "scripts"
            /\ UNCHANGED packageJson
       [] packageJson.kind = "invalid" ->
            /\ pc' = "thrown"
            /\ UNCHANGED packageJson
       [] packageJson.kind = "object" ->
            /\ packageJson' =
                 [packageJson EXCEPT
                    !.hasScripts = TRUE,
                    !.scripts = ObjectAssign(
                                  IF packageJson.hasScripts
                                  THEN packageJson.scripts ELSE NoScripts,
                                  MemoryScripts)]
            /\ pc' = "scripts"
  /\ UNCHANGED <<answers, date, overwrite, template, memoryBank, scriptsDir,
                 console, exitCode, pre, toolVars>>

\* a variant that appends the script to the file it finds (appendFileSync)
WriteSearchScriptAppends ==
  /\ pc = "scripts"
  /\ scriptsDir' = [exists |-> TRUE,
                    search |-> IF scriptsDir.search = "none" THEN "searchScript"
                               ELSE "appended",
                    mode |-> "755"]
  /\ console' = Append(console, "Memory Bank initialized successfully!")
  /\ pc' = "returned"
  /\ UNCHANGED <<answers, date, overwrite, template, memoryBank, packageJson,
                 exitCode, pre, toolVars>>

\* lines 110-189: the scripts directory, memory-search.js, the closing messages
WriteSearchScript ==
  /\ pc = "scripts"
  /\ scriptsDir' = [exists |-> TRUE, search |-> "searchScript", mode |-> "755"]
  /\ console' = Append(console, "Memory Bank initialized successfully!")
  /\ pc' = "returned"
  /\ UNCHANGED <<answers, date, overwrite, template, memoryBank, packageJson,
                 exitCode, pre, toolVars>>

\* line 234: a rejection is printed by console.error; the process ends with
\* process.exitCode, which nothing has set
ProcessExit ==
  /\ pc \in {"returned", "thrown"}
  /\ console' = IF pc = "thrown" THEN Append(console, "error") ELSE console
  /\ pc' = "exited"
  /\ UNCHANGED <<answers, date, overwrite, template, memoryBank, packageJson,
                 scriptsDir, exitCode, pre, toolVars>>

NextScaffold ==
  \/ AskQuestions
  \/ TargetAbsent
  \/ AskOverwrite
  \/ CopyTemplate
  \/ ReplacePlaceholders
  \/ WriteActiveContext
  \/ UpdatePackageJson
  \/ WriteSearchScript
  \/ ProcessExit

ScaffoldSpec == InitScaffold /\ [][NextScaffold]_vars

(***************************************************************************)
(* The scaffolder run again                                                *)
(***************************************************************************)
\* the templates of the runs that are repeated
RescaffoldTemplates ==
  {TemplateTree(md, TokArchitectureType \o <<"/">> \o TokArchitectureTypeLower, c) :
     md \in MdTexts, c \in BOOLEAN}

InitRescaffold ==
  /\ InitScaffold
  /\ template \in RescaffoldTemplates

\* after a successful run the user starts initMemoryBank again, on the same
\* day, and gives the five answers of the run before (lines 14-24); pre is
\* the file system that run left
ScaffoldAgain ==
  /\ pc = "exited"
  /\ \E i \in 1..Len(console) : console[i] = "Memory Bank initialized successfully!"
  /\ overwrite' = [asked |-> FALSE, answer |-> <<>>]
  /\ console' = <<>>
  /\ exitCode' = 0
  /\ pre' = [memoryBank |-> memoryBank, packageJson |-> packageJson,
             scriptsDir |-> scriptsDir, indexFile |-> indexFile]
  /\ pc' = "exists"
  /\ UNCHANGED <<answers, date, template, memoryBank, packageJson, scriptsDir,
                 toolVars>>

NextRescaffold ==
  \/ NextScaffold
  \/ ScaffoldAgain

RescaffoldSpec == InitRescaffold /\ [][NextRescaffold]_vars

(***************************************************************************)
(* Properties of the scaffolder                                            *)
(***************************************************************************)
\* the user answered the overwrite prompt with something other than y or Y
Declined == overwrite.asked /\ overwrite.answer \notin {<<"y">>, <<"Y">>}

\* the run printed its closing message and the process has ended
Succeeded ==
  /\ pc = "exited"
  /\ \E i \in 1..Len(console) : console[i] = "Memory Bank initialized successfully!"

\* the files of a tree
FilesOf(tree) == {p \in DOMAIN tree : ~tree[p].isDir}

\* C2: when the destination exists and the answer to the overwrite prompt is
\* not y or Y (the empty answer included), nothing is written: the
\* destination tree, package.json and the scripts directory are as they were
\* when the scaffolder started.
C2_DeclineWritesNothing ==
  Declined =>
    /\ memoryBank = pre.memoryBank
    /\ packageJson = pre.packageJson
    /\ scriptsDir = pre.scriptsDir

C2_Witness ==
  /\ pc = "exited"
  /\ Declined
  /\ overwrite.answer = <<>>
  /\ pre.memoryBank = OldBank
  /\ memoryBank = OldBank

C4_MissingTemplateWritesNothing ==
  (pc = "exited" /\ ~Exists(template)) => memoryBank = pre.memoryBank

\* C5: every invocation that has ended either completed all of its steps or
\* made no write under the destination directory.
C5_AllOrNothing ==
  pc = "exited" => (Succeeded \/ memoryBank = pre.memoryBank)

OtherTokens ==
  {TokProjectDescription, TokArchitectureType, TokArchitectureTypeLower,
   TokFramework, TokLanguage, TokDate, TokYMD, TokPort, TokDomain}

\* the .md and .json files of the template hold no token but [PROJECT_NAME]
OnlyProjectNameToken ==
  \A p \in FilesOf(template) :
    IsTextName(p[Len(p)]) =>
      \A t \in OtherTokens : ~Includes(template[p].content, t)

\* no answer holds the text [PROJECT_NAME]
NoAnswerHoldsToken ==
  \A a \in {answers.projectDescription, answers.architecture,
             answers.framework, answers.language} :
    ~Includes(a, TokProjectName)

TemplateHasToken ==
  \E p \in FilesOf(template) : Includes(template[p].content, TokProjectName)

\* C6, as claimed: after a successful scaffold of a template that contains
\* [PROJECT_NAME], with project name "Foo", no file of the destination tree
\* contains the text [PROJECT_NAME].
C6_NoFileKeepsToken ==
  (Succeeded /\ answers.projectName = Foo /\ TemplateHasToken) =>
    \A p \in FilesOf(memoryBank) :
      ~Includes(memoryBank[p].content, TokProjectName)

\* C6, amended: after a successful scaffold with project name "Foo" of a
\* template whose .md and .json files hold no placeholder token other than
\* [PROJECT_NAME], with answers none of which holds the text [PROJECT_NAME],
\* no .md or .json file of the destination tree contains the text
\* [PROJECT_NAME].
C6_NoTextFileKeepsToken ==
  (/\ Succeeded
   /\ answers.projectName = Foo
   /\ TemplateHasToken
   /\ OnlyProjectNameToken
   /\ NoAnswerHoldsToken) =>
    \A p \in FilesOf(memoryBank) :
      IsTextName(p[Len(p)]) => ~Includes(memoryBank[p].content, TokProjectName)

C6_Witness ==
  /\ Succeeded
  /\ answers.projectName = Foo
  /\ OnlyProjectNameToken
  /\ NoAnswerHoldsToken
  /\ template[<<NameAMd>>].content = <<"H","i"," ">> \o TokProjectName \o <<"!">>
  /\ memoryBank[<<NameAMd>>].content = <<"H","i"," ">> \o Foo \o <<"!">>
  /\ memoryBank[<<NameContext, NameSub, NameBJson>>].content =
       <<"{">> \o Foo \o <<":">> \o Foo \o <<"}">>
  /\ memoryBank[<<NameCTxt>>].content = TokProjectName

\* content with every occurrence of placeholder replaced by the characters
\* of value
RECURSIVE LiteralReplace(_, _, _, _)
LiteralReplace(content, placeholder, value, i) ==
  IF i > Len(content) THEN <<>>
  ELSE IF OccursAt(content, placeholder, i)
    THEN value \o LiteralReplace(content, placeholder, value, i + Len(placeholder))
  ELSE <<content[i]>> \o LiteralReplace(content, placeholder, value, i + 1)

RECURSIVE LiteralSubstitute(_, _)
LiteralSubstitute(content, replacements) ==
  IF replacements = <<>> THEN content
  ELSE LiteralSubstitute(
         LiteralReplace(content, Head(replacements)[1], Head(replacements)[2], 1),
         Tail(replacements))

\* C7: after a successful scaffold, the content of every .md or .json file
\* of the template is the template's content with every literal occurrence
\* of every token replaced by its value, character for character, for every
\* value the user can enter.
C7_SubstitutionIsExact ==
  Succeeded =>
    \A p \in FilesOf(template) :
      (IsTextName(p[Len(p)]) /\ p # ActivePath) =>
        memoryBank[p].content =
          LiteralSubstitute(template[p].content, Replacements(answers, date))

\* C8: after a successful scaffold the destination holds a directory or a
\* file at exactly the relative paths of the template, plus
\* context/active.md, at every depth, and every file whose name ends in
\* neither .md nor .json has the content of its template source.
C8_CopyIsFaithful ==
  Succeeded =>
    /\ DOMAIN memoryBank = (DOMAIN template) \cup {ActivePath}
    /\ \A p \in DOMAIN template :
         /\ memoryBank[p].isDir = template[p].isDir
         /\ (~template[p].isDir /\ ~IsTextName(p[Len(p)])) =>
              memoryBank[p].content = template[p].content

C8_Witness ==
  /\ Succeeded
  /\ IsFile(memoryBank, <<NameContext, NameSub, NameBJson>>)
  /\ IsFile(template, <<NameContext, NameSub, NameBJson>>)
  /\ memoryBank[<<NameCTxt>>].content = template[<<NameCTxt>>].content
  /\ IsFile(memoryBank, ActivePath)
  /\ ActivePath \notin DOMAIN template

(***************************************************************************)
(* memory-search.js, the script initMemoryBank writes (lines 116-177)      *)
(***************************************************************************)
\* searchInFile with term not lower-cased
SearchInFileTermAsGiven(tree, filePath, term) ==
  LET lines == Split(tree[filePath].content, "\n")
      hits == SelectSeq([i \in 1..Len(lines) |-> i],
                        LAMBDA i : Includes(ToLowerCase(lines[i]), term))
  IN [k \in 1..Len(hits) |->
        [file |-> RelativePath(filePath), line |-> hits[k],
         content |-> Trim(lines[hits[k]])]]

\* searchInFile with index in the place of index + 1
SearchInFileZeroBased(tree, filePath, term) ==
  LET lines == Split(tree[filePath].content, "\n")
      hits == SelectSeq([i \in 1..Len(lines) |-> i],
                        LAMBDA i : Includes(ToLowerCase(lines[i]), ToLowerCase(term)))
  IN [k \in 1..Len(hits) |->
        [file |-> RelativePath(filePath), line |-> hits[k] - 1,
         content |-> Trim(lines[hits[k]])]]

\* a searchInFile that puts each match before the earlier ones (unshift)
SearchInFileNewestFirst(tree, filePath, term) ==
  LET lines == Split(tree[filePath].content, "\n")
      hits == SelectSeq([i \in 1..Len(lines) |-> i],
                        LAMBDA i : Includes(ToLowerCase(lines[i]), ToLowerCase(term)))
  IN [k \in 1..Len(hits) |->
        [file |-> RelativePath(filePath), line |-> hits[Len(hits) + 1 - k],
         content |-> Trim(lines[hits[Len(hits) + 1 - k]])]]

\* searchInFile(filePath, term); file is the path relative to memoryBankDir
SearchInFile(tree, filePath, term) ==
  LET lines == Split(tree[filePath].content, "\n")
      hits == SelectSeq([i \in 1..Len(lines) |-> i],
                        LAMBDA i : Includes(ToLowerCase(lines[i]), ToLowerCase(term)))
  IN [k \in 1..Len(hits) |->
        [file |-> RelativePath(filePath), line |-> hits[k],
         content |-> Trim(lines[hits[k]])]]

RECURSIVE SearchEntries(_, _, _, _)
\* searchDirectory, the loop over the entries of dir
SearchEntries(tree, dir, term, files) ==
  IF files = <<>> THEN <<>>
  ELSE
    LET file == Head(files)
        filePath == Append(dir, file)
        found ==
          IF tree[filePath].isDir /\ ~StartsWith(file, <<".">>)
          THEN SearchEntries(tree, filePath, term, Readdir(tree, filePath))
          ELSE IF ~tree[filePath].isDir /\ EndsWith(file, ExtMd)
          THEN SearchInFile(tree, filePath, term)
          ELSE <<>>
    IN found \o SearchEntries(tree, dir, term, Tail(files))

\* searchDirectory(dir, term)
SearchDirectory(tree, dir, term) ==
  SearchEntries(tree, dir, term, Readdir(tree, dir))

\* the longest search term
MaxTermLen == 2

TermAlphabet == {"a", "A", "b"}

\* the keywords a user passes
SearchTerms ==
  UNION {[1..n -> TermAlphabet] : n \in 1..MaxTermLen} \cup {<<"a","u","t","h">>}

\* the contents of the documents: "Ab\nba", " aB \n\nB" and a text with the
\* line "Authentication flow"
DocTexts ==
  << <<"A","b","\n","b","a">>,
     <<" ","a","B"," ","\n","\n","B">>,
     <<"#"," ","b","\n","\t","A","u","t","h","e","n","t","i","c","a","t","i","o","n",
       " ","f","l","o","w"," ">> >>

\* the directories of the memory bank
BankDirs ==
  {<<>>, <<NameDocs>>, <<NameDocs, NameSub>>, <<NameHidden>>}

\* the places of its files
BankSlots ==
  {<<NameAMd>>, <<NameCTxt>>, <<NameDocs, NameBMd>>,
   <<NameDocs, NameSub, NameAMd>>, <<NameHidden, NameAMd>>}

\* the tree with the file of slot p holding texts[choice[p]], absent when 0
BankTree(texts, choice) ==
  [p \in BankDirs \cup {q \in BankSlots : choice[q] # 0} |->
     IF p \in BankDirs THEN Dir ELSE File(texts[choice[p]])]

\* a tree in which a directory is listed between two files of the root
OrderTree ==
  [p \in {<<>>, <<NameAMd>>, <<NameDocs>>, <<NameDocs, NameBMd>>,
          <<NameDocs, NameSub>>, <<NameDocs, NameSub, NameAMd>>,
          <<NameOldMd>>} |->
     IF p \in {<<>>, <<NameDocs>>, <<NameDocs, NameSub>>}
     THEN Dir ELSE File(DocTexts[1])]

SearchBanks ==
  {BankTree(DocTexts, choice) :
     choice \in {c \in [BankSlots -> 0..Len(DocTexts)] :
                   c[<<NameCTxt>>] <= 1 /\ c[<<NameHidden, NameAMd>>] <= 1}}
    \cup {OrderTree}

\* the state in which no tool is running and the scaffolder has never run
Shell ==
  /\ pc = "shell"
  /\ answers = NoAnswers
  /\ date = <<>>
  /\ overwrite = [asked |-> FALSE, answer |-> <<>>]
  /\ template = NoTree
  /\ packageJson = [kind |-> "absent", hasScripts |-> FALSE,
                    scripts |-> NoScripts, name |-> ""]
  /\ scriptsDir = [exists |-> TRUE, search |-> "searchScript", mode |-> "755"]
  /\ console = <<>>
  /\ exitCode = 0
  /\ argv = <<>>
  /\ results = <<>>
  /\ indexFile = NoIndex
  /\ pre = [memoryBank |-> memoryBank, packageJson |-> packageJson,
            scriptsDir |-> scriptsDir, indexFile |-> indexFile]

InitSearch ==
  /\ memoryBank \in SearchBanks \cup {NoTree}
  /\ Shell

\* a run of memory-search.js that exits with status 1 when nothing matches
SearchForFailsOnNoMatch(term) ==
  /\ pc = "shell"
  /\ argv' = term
  /\ IF term = <<>>
     THEN /\ console' = <<"Usage: npm run memory:search <keyword>">>
          /\ exitCode' = 1
          /\ results' = <<>>
     ELSE IF ~Exists(memoryBank)
     THEN /\ console' = <<"Searching for", "uncaught exception">>
          /\ exitCode' = 1
          /\ results' = <<>>
     ELSE /\ results' = SearchDirectory(memoryBank, <<>>, term)
          /\ console' = <<"Searching for",
                          IF results' = <<>> THEN "No results found."
                          ELSE "Found matches">>
          /\ exitCode' = IF results' = <<>> THEN 1 ELSE 0
  /\ pre' = [memoryBank |-> memoryBank, packageJson |-> packageJson,
             scriptsDir |-> scriptsDir, indexFile |-> indexFile]
  /\ pc' = "exited"
  /\ UNCHANGED <<memoryBank, indexFile, scaffoldVars>>

\* the one run of memory-search.js <term> of the process; no term, or the
\* empty one, is falsy (line 122); readdirSync of a missing memory-bank throws,
\* uncaught
SearchFor(term) ==
  /\ pc = "shell"
  /\ argv' = term
  /\ IF term = <<>>
     THEN /\ console' = <<"Usage: npm run memory:search <keyword>">>
          /\ exitCode' = 1
          /\ results' = <<>>
     ELSE IF ~Exists(memoryBank)
     THEN /\ console' = <<"Searching for", "uncaught exception">>
          /\ exitCode' = 1
          /\ results' = <<>>
     ELSE /\ results' = SearchDirectory(memoryBank, <<>>, term)
          /\ console' = <<"Searching for",
                          IF results' = <<>> THEN "No results found."
                          ELSE "Found matches">>
          /\ exitCode' = 0
  /\ pre' = [memoryBank |-> memoryBank, packageJson |-> packageJson,
             scriptsDir |-> scriptsDir, indexFile |-> indexFile]
  /\ pc' = "exited"
  /\ UNCHANGED <<memoryBank, indexFile, scaffoldVars>>

Search == \E term \in SearchTerms \cup {<<>>} : SearchFor(term)

NextSearch == Search

SearchSpec == InitSearch /\ [][NextSearch]_vars

(***************************************************************************)
(* Properties of the search script                                         *)
(***************************************************************************)
\* the run of memory-search.js with a keyword has ended normally
Searched == argv # <<>> /\ exitCode = 0 /\ Len(console) = 2

\* the (path, line number) pairs of the results
ResultPairs == {<<results[k].file, results[k].line>> : k \in 1..Len(results)}

\* (place, line number) pairs with the place written as a relative path
AsRelative(pairs) == {<<RelativePath(x[1]), x[2]>> : x \in pairs}

\* t is a substring of s
IsSubstring(t, s) ==
  \E i \in 1..(Len(s) + 1) :
    i + Len(t) - 1 <= Len(s) /\ SubSeq(s, i, i + Len(t) - 1) = t

\* the Markdown files of the tree
MarkdownFiles(tree) ==
  {p \in FilesOf(tree) : Len(p) > 0 /\ EndsWith(p[Len(p)], ExtMd)}

\* no directory on the way to p has a name that starts with "."
NotUnderHidden(p) == \A k \in 1..(Len(p) - 1) : p[k][1] # "."

\* the lines of the files in set whose lower case holds the lower case of term
MatchingLines(tree, set, term) ==
  UNION { LET lines == Split(tree[p].content, "\n")
          IN {<<p, i>> : i \in {k \in 1..Len(lines) :
                                  IsSubstring(ToLowerCase(term), ToLowerCase(lines[k]))}}
          : p \in set }

\* C1, as claimed: for every tree and every non-empty query, the (path, line)
\* pairs Search returns are exactly the lines, over all Markdown files of
\* the tree, whose lower-cased text holds the lower-cased query.
C1_SearchFindsAllMarkdownLines ==
  Searched =>
    ResultPairs =
      AsRelative(MatchingLines(memoryBank, MarkdownFiles(memoryBank), argv))

\* C1, amended: for every tree and every non-empty query, the (path, line)
\* pairs Search returns are exactly the lines, over the Markdown files of
\* the tree that lie under no directory whose name starts with ".", whose
\* lower-cased text holds the lower-cased query.
C1_SearchFindsAllVisibleMarkdownLines ==
  Searched =>
    ResultPairs =
      AsRelative(MatchingLines(memoryBank,
                               {p \in MarkdownFiles(memoryBank) :
                                  NotUnderHidden(p)}, argv))

C1_Witness ==
  /\ Searched
  /\ argv = <<"A", "b">>
  /\ IsFile(memoryBank, <<NameHidden, NameAMd>>)
  /\ IsFile(memoryBank, <<NameCTxt>>)
  /\ ResultPairs = {<<NameAMd, 1>>,
                    <<RelativePath(<<NameDocs, NameSub, NameAMd>>), 1>>}

(***************************************************************************)
(* memory-update.js: the indexer.  Paths and categories are the strings    *)
(* the script builds them as; stat.size is the length of the content (one  *)
(* byte a character); stat.mtime, which no rule of the index depends on, is *)
(* left out of the entry.                                                  *)
(***************************************************************************)
\* position i of s is where ^ of a multiline RegExp matches
LineStart(s, i) == i = 1 \/ s[i - 1] \in LineTerminators

\* the greatest member of a nonempty set of numbers
Greatest(set) == CHOOSE k \in set : \A m \in set : m <= k

\* the least member of a nonempty set of numbers
Least(set) == CHOOSE k \in set : \A m \in set : k <= m

\* /^#\s+(.+)$/m tried at position i: where its group starts (0: no match).
\* \s+ is greedy and gives characters back until . matches the next one
TitleGroupAt(s, i) ==
  IF ~(i <= Len(s) /\ LineStart(s, i) /\ s[i] = "#") THEN 0
  ELSE
    LET w == FirstNotIn(s, i + 1, WhiteSpace) - (i + 1)
        ks == {k \in 1..w :
                 i + 1 + k <= Len(s) /\ s[i + 1 + k] \notin LineTerminators}
    IN IF ks = {} THEN 0 ELSE i + 1 + Greatest(ks)

\* content.match(/^#\s+(.+)$/m): titleMatch[1], '' when there is no match
TitleMatch(content) ==
  LET starts == {i \in 1..Len(content) : TitleGroupAt(content, i) # 0}
  IN IF starts = {} THEN <<>>
     ELSE LET j == TitleGroupAt(content, Least(starts))
          IN SubSeq(content, j, FirstIn(content, j, LineTerminators) - 1)

\* /tags:\s*\[([^\]]+)\]/ tried at position i: the group as <<first, last>>
\* (<<0, 0>>: no match)
TagsGroupAt(s, i) ==
  IF ~OccursAt(s, <<"t","a","g","s",":">>, i) THEN <<0, 0>>
  ELSE
    LET j == FirstNotIn(s, i + 5, WhiteSpace)
        e == FirstIn(s, j + 1, {"]"})
    IN IF j <= Len(s) /\ s[j] = "[" /\ e <= Len(s) /\ e > j + 1
       THEN <<j + 1, e - 1>> ELSE <<0, 0>>

\* content.match(/tags:\s*\[([^\]]+)\]/) and
\* tagsMatch[1].split(',').map(t => t.trim()); [] when there is no match
TagsMatch(content) ==
  LET starts == {i \in 1..Len(content) : TagsGroupAt(content, i) # <<0, 0>>}
  IN IF starts = {} THEN <<>>
     ELSE LET g == TagsGroupAt(content, Least(starts))
              parts == Split(SubSeq(content, g[1], g[2]), ",")
          IN [k \in 1..Len(parts) |-> Trim(parts[k])]

\* a variant that takes the first non-empty line whatever it starts with
SummaryMatchAnyLine(content) ==
  LET starts == {i \in 1..Len(content) :
                   LineStart(content, i) /\ content[i] # "\n"}
  IN IF starts = {} THEN <<>>
     ELSE SubSeq(content, Least(starts),
                 FirstIn(content, Least(starts), {"\n"}) - 1)

\* content.match(/^(?!#)([^\n]+)/m): summaryMatch[1], '' when there is no
\* match
SummaryMatch(content) ==
  LET starts == {i \in 1..Len(content) :
                   LineStart(content, i) /\ content[i] \notin {"#", "\n"}}
  IN IF starts = {} THEN <<>>
     ELSE SubSeq(content, Least(starts),
                 FirstIn(content, Least(starts), {"\n"}) - 1)

\* extractMetadata(content)
ExtractMetadata(content) ==
  [title |-> TitleMatch(content),
   tags |-> TagsMatch(content),
   summary |-> SummaryMatch(content)]

\* file.replace('.md', ''): the first occurrence only
RemoveFirstMd(file) ==
  LET at == {i \in 1..Len(file) : OccursAt(file, ExtMd, i)}
  IN IF at = {} THEN file
     ELSE SubSeq(file, 1, Least(at) - 1)
            \o SubSeq(file, Least(at) + Len(ExtMd), Len(file))

\* the length content.substring(0, 200) cuts to
SummaryMax == 200

\* content.substring(0, 200).replace(/\n/g, ' ')
ContentStart(content) ==
  LET n == IF Len(content) < SummaryMax THEN Len(content) ELSE SummaryMax
  IN [i \in 1..n |-> IF content[i] = "\n" THEN " " ELSE content[i]]

\* the entry index.files[relativePath] of a file (lines 316-323); '' is falsy
FileEntry(category, file, content) ==
  LET metadata == ExtractMetadata(content)
  IN [category |-> category,
      size |-> Len(content),
      title |-> IF metadata.title # <<>> THEN metadata.title
                ELSE RemoveFirstMd(file),
      tags |-> metadata.tags,
      summary |-> IF metadata.summary # <<>> THEN metadata.summary
                  ELSE ContentStart(content)]

RECURSIVE IndexTags(_, _, _)
\* metadata.tags.forEach (lines 330-333)
IndexTags(tagIndex, tags, relativePath) ==
  IF tags = <<>> THEN tagIndex
  ELSE
    LET tag == Head(tags)
        listed == IF tag \in DOMAIN tagIndex THEN tagIndex[tag] ELSE <<>>
    IN IndexTags(Put(tagIndex, tag, Append(listed, relativePath)),
                 Tail(tags), relativePath)

\* a variant that starts from the index of the last run
PreviousIndex ==
  IF indexFile.written
  THEN [files |-> indexFile.index.files,
        categories |-> indexFile.index.categories,
        tags |-> indexFile.index.tags, failed |-> FALSE]
  ELSE [files |-> <<>>, categories |-> <<>>, tags |-> <<>>, failed |-> FALSE]

\* the index before indexDirectory runs (lines 291-296); failed is set when a
\* call throws
EmptyIndex == [files |-> <<>>, categories |-> <<>>, tags |-> <<>>,
               failed |-> FALSE]

\* a variant that keeps the category of the top-level directory
SubCategoryTopLevel(category, file) ==
  IF category # <<>> THEN category ELSE file

\* a variant that names every category by the directory's own name
SubCategoryOwnName(category, file) == file

\* const subCategory = category ? `${category}/${file}` : file (line 306)
SubCategory(category, file) ==
  IF category # <<>> THEN JoinPath(category, file) ELSE file

RECURSIVE IndexEntries(_, _, _, _, _)
\* indexDirectory, the loop over the entries of dir; readFileSync of an entry
\* that is a directory throws
IndexEntries(tree, dir, category, files, index) ==
  IF files = <<>> \/ index.failed THEN index
  ELSE
    LET file == Head(files)
        filePath == Append(dir, file)
        stat == tree[filePath]
        relativePath == RelativePath(filePath)
        step ==
          IF stat.isDir /\ ~StartsWith(file, <<".">>)
          THEN LET subCategory == SubCategory(category, file)
               IN IndexEntries(tree, filePath, subCategory,
                               Readdir(tree, filePath),
                               [index EXCEPT !.categories =
                                               Put(@, subCategory, <<>>)])
          ELSE IF EndsWith(file, ExtMd)
          THEN IF stat.isDir THEN [index EXCEPT !.failed = TRUE]
               ELSE [index EXCEPT
                       !.files = Put(@, relativePath,
                                     FileEntry(category, file, stat.content)),
                       !.categories =
                         IF category # <<>>
                         THEN [@ EXCEPT ![category] = Append(@, relativePath)]
                         ELSE @,
                       !.tags = IndexTags(@, ExtractMetadata(stat.content).tags,
                                          relativePath)]
          ELSE index
    IN IndexEntries(tree, dir, category, Tail(files), step)

\* indexDirectory(dir, category)
IndexDirectory(tree, dir, category, index) ==
  IndexEntries(tree, dir, category, Readdir(tree, dir), index)

\* the file of Scenario A
ScenarioAText ==
  <<"#"," ","H","e","l","l","o","\n",
    "t","a","g","s",":"," ","[","x",","," ","y","]","\n",
    "S","o","m","e"," ","s","u","m","m","a","r","y"," ","t","e","x","t",".">>

\* one line of one character more than SummaryMax
LongLine == [i \in 1..(SummaryMax + 1) |-> "x"]

\* heading lines only, a line feed among the first SummaryMax characters
HeadingsOnly == <<"#">> \o [i \in 1..(SummaryMax - 2) |-> "x"] \o <<"\n","#","y">>

\* the contents of the files the indexer is run on
IndexTexts ==
  << ScenarioAText,
     LongLine,
     HeadingsOnly,
     <<"#"," ","T">>,
     <<"\n","#","t","\n","a","b","\n","c">>,
     <<>>,
     <<"#"," ","\n","a","\n","t","a","g","s",":","[","x",","," ",",","x","]">>,
     <<"#","x","\r","a","b">> >>

\* the tree of Scenario A: a.md and nothing else
ScenarioATree ==
  [p \in {<<>>, <<NameAMd>>} |-> IF p = <<>> THEN Dir ELSE File(ScenarioAText)]

\* a tree with a hidden directory whose name ends in .md
HiddenMdTree ==
  [p \in {<<>>, <<NameAMd>>, <<NameHiddenMd>>} |->
     IF p = <<NameAMd>> THEN File(ScenarioAText) ELSE Dir]

IndexBanks ==
  {BankTree(IndexTexts, choice) :
     choice \in {c \in [BankSlots -> 0..Len(IndexTexts)] :
                   \A p \in BankSlots \ {<<NameAMd>>, <<NameDocs, NameBMd>>} :
                     c[p] <= 1}}
    \cup {ScenarioATree, HiddenMdTree}

InitIndex ==
  /\ memoryBank \in IndexBanks \cup {NoTree}
  /\ Shell

\* the values new Date().toISOString() takes (line 292)
Instants ==
  Dates \cup {<<"2","0","2","6","-","1","1","-","0","2">>}

\* a variant that writes the index to a Markdown file
IndexPathMarkdown == <<NameOldMd>>

\* the place of the index file in the tree (line 288)
IndexPath == <<NameIndexJson>>

\* the index file as an entry of the tree; its text, JSON.stringify of the
\* index, is kept parsed in indexFile, and no tool reads the entry's content
IndexNode == File(<<"{","}">>)

\* a run that leaves out the entries it cannot read
UpdateIndexSkipsUnreadable ==
  /\ pc = "shell"
  /\ \E now \in Instants :
       LET index == IndexDirectory(memoryBank, <<>>, <<>>, EmptyIndex)
       IN IF \/ ~Exists(memoryBank)
             \/ ~CanWriteFile(memoryBank, IndexPath)
          THEN /\ console' = <<"Updating Memory Bank Index", "uncaught exception">>
               /\ exitCode' = 1
               /\ indexFile' = indexFile
               /\ memoryBank' = memoryBank
          ELSE /\ memoryBank' = Put(memoryBank, IndexPath, IndexNode)
               /\ indexFile' = [written |-> TRUE,
                                index |-> [updated |-> now,
                                           files |-> index.files,
                                           categories |-> index.categories,
                                           tags |-> index.tags]]
               /\ console' = <<"Updating Memory Bank Index", "Indexed files",
                               "Found categories", "Found unique tags",
                               "Index saved", "updated successfully">>
               /\ exitCode' = 0
  /\ pre' = [memoryBank |-> memoryBank, packageJson |-> packageJson,
             scriptsDir |-> scriptsDir, indexFile |-> indexFile]
  /\ pc' = "exited"
  /\ argv' = <<>>
  /\ results' = <<>>
  /\ UNCHANGED scaffoldVars

\* a run that writes each document back, trimmed
UpdateIndexTouchesDocuments ==
  /\ pc = "shell"
  /\ \E now \in Instants :
       LET index == IndexDirectory(memoryBank, <<>>, <<>>, EmptyIndex)
       IN IF \/ ~Exists(memoryBank)
             \/ index.failed
             \/ ~CanWriteFile(memoryBank, IndexPath)
          THEN /\ console' = <<"Updating Memory Bank Index", "uncaught exception">>
               /\ exitCode' = 1
               /\ indexFile' = indexFile
               /\ memoryBank' = memoryBank
          ELSE /\ memoryBank' =
                    [p \in DOMAIN Put(memoryBank, IndexPath, IndexNode) |->
                       IF p = IndexPath THEN IndexNode
                       ELSE IF memoryBank[p].isDir THEN Dir
                       ELSE File(Trim(memoryBank[p].content))]
               /\ indexFile' = [written |-> TRUE,
                                index |-> [updated |-> now,
                                           files |-> index.files,
                                           categories |-> index.categories,
                                           tags |-> index.tags]]
               /\ console' = <<"Updating Memory Bank Index", "Indexed files",
                               "Found categories", "Found unique tags",
                               "Index saved", "updated successfully">>
               /\ exitCode' = 0
  /\ pre' = [memoryBank |-> memoryBank, packageJson |-> packageJson,
             scriptsDir |-> scriptsDir, indexFile |-> indexFile]
  /\ pc' = "exited"
  /\ argv' = <<>>
  /\ results' = <<>>
  /\ UNCHANGED scaffoldVars

\* the one run of memory-update.js of the process; readdirSync of a missing
\* memory-bank, readFileSync of a directory and writeFileSync over a directory
\* throw, uncaught; the first two before the index is written
UpdateIndex ==
  /\ pc = "shell"
  /\ \E now \in Instants :
       LET index == IndexDirectory(memoryBank, <<>>, <<>>, EmptyIndex)
       IN IF \/ ~Exists(memoryBank)
             \/ index.failed
             \/ ~CanWriteFile(memoryBank, IndexPath)
          THEN /\ console' = <<"Updating Memory Bank Index", "uncaught exception">>
               /\ exitCode' = 1
               /\ indexFile' = indexFile
               /\ memoryBank' = memoryBank
          ELSE /\ memoryBank' = Put(memoryBank, IndexPath, IndexNode)
               /\ indexFile' = [written |-> TRUE,
                                index |-> [updated |-> now,
                                           files |-> index.files,
                                           categories |-> index.categories,
                                           tags |-> index.tags]]
               /\ console' = <<"Updating Memory Bank Index", "Indexed files",
                               "Found categories", "Found unique tags",
                               "Index saved", "updated successfully">>
               /\ exitCode' = 0
  /\ pre' = [memoryBank |-> memoryBank, packageJson |-> packageJson,
             scriptsDir |-> scriptsDir, indexFile |-> indexFile]
  /\ pc' = "exited"
  /\ argv' = <<>>
  /\ results' = <<>>
  /\ UNCHANGED scaffoldVars

NextIndex == UpdateIndex

IndexSpec == InitIndex /\ [][NextIndex]_vars

(***************************************************************************)
(* Properties of the indexer                                               *)
(***************************************************************************)
\* the run of memory-update.js has ended and has written the index
Indexed == pc = "exited" /\ indexFile.written

\* the Markdown files the index has an entry of, by relative path
IndexedPaths == DOMAIN indexFile.index.files

\* the places in a tree of the files whose entry has the relative path r
PlacesOf(tree, r) ==
  {p \in DOMAIN tree : ~tree[p].isDir /\ RelativePath(p) = r}

\* the lines of a text, split at line feeds
LinesOf(content) == Split(content, "\n")

\* the lines of a text that are not empty and do not start with "#"
BodyLines(content) ==
  {k \in 1..Len(LinesOf(content)) :
     LinesOf(content)[k] # <<>> /\ LinesOf(content)[k][1] # "#"}

\* a text cut to its first n characters
CutTo(s, n) == IF Len(s) <= n THEN s ELSE SubSeq(s, 1, n)

\* C9: indexing the tree whose only file is a.md with the lines "# Hello",
\* "tags: [x, y]", "Some summary text." writes an entry of a.md with title
\* "Hello", tags ["x", "y"] and summary "Some summary text."
C9_ScenarioA ==
  (pc = "exited" /\ pre.memoryBank = ScenarioATree) =>
    /\ indexFile.written
    /\ NameAMd \in IndexedPaths
    /\ indexFile.index.files[NameAMd].title = <<"H","e","l","l","o">>
    /\ indexFile.index.files[NameAMd].tags = << <<"x">>, <<"y">> >>
    /\ indexFile.index.files[NameAMd].summary =
         <<"S","o","m","e"," ","s","u","m","m","a","r","y"," ",
           "t","e","x","t",".">>

VisibleDirs(tree) ==
  {p \in DOMAIN tree : Len(p) > 0 /\ tree[p].isDir /\ \A k \in 1..Len(p) : p[k][1] # "."}

\* the Markdown files of a tree that lie in no hidden directory
VisibleMarkdown(tree) == {p \in MarkdownFiles(tree) : NotUnderHidden(p)}

RECURSIVE BrowseEntries(_, _, _, _)
\* browseDirectory, the loop over the entries of dir: a directory, hidden or
\* not, prints its name and then its entries; any other entry whose name ends
\* in .md prints its name
BrowseEntries(tree, dir, indent, files) ==
  IF files = <<>> THEN <<>>
  ELSE
    LET file == Head(files)
        filePath == Append(dir, file)
        printed ==
          IF tree[filePath].isDir
          THEN <<[kind |-> "directory", indent |-> indent, name |-> file]>>
                 \o BrowseEntries(tree, filePath, indent \o <<" ", " ">>,
                                  Readdir(tree, filePath))
          ELSE IF EndsWith(file, ExtMd)
          THEN <<[kind |-> "file", indent |-> indent, name |-> file]>>
          ELSE <<>>
    IN printed \o BrowseEntries(tree, dir, indent, Tail(files))

RECURSIVE BrowseVisibleEntries(_, _, _, _)
\* a walk that leaves out the directories whose name starts with a dot
BrowseVisibleEntries(tree, dir, indent, files) ==
  IF files = <<>> THEN <<>>
  ELSE
    LET file == Head(files)
        filePath == Append(dir, file)
        printed ==
          IF tree[filePath].isDir /\ ~StartsWith(file, <<".">>)
          THEN <<[kind |-> "directory", indent |-> indent, name |-> file]>>
                 \o BrowseVisibleEntries(tree, filePath, indent \o <<" ", " ">>,
                                         Readdir(tree, filePath))
          ELSE IF ~tree[filePath].isDir /\ EndsWith(file, ExtMd)
          THEN <<[kind |-> "file", indent |-> indent, name |-> file]>>
          ELSE <<>>
    IN printed \o BrowseVisibleEntries(tree, dir, indent, Tail(files))

\* a browseDirectory that skips hidden directories
BrowseDirectorySkipsHidden(tree, dir, indent) ==
  BrowseVisibleEntries(tree, dir, indent, Readdir(tree, dir))

\* browseDirectory(dir, indent)
BrowseDirectory(tree, dir, indent) ==
  BrowseEntries(tree, dir, indent, Readdir(tree, dir))

\* the categories the usage message lists (lines 246-247): every directory of
\* the root
AvailableCategories(tree) ==
  SelectSeq(Readdir(tree, <<>>), LAMBDA file : tree[<<file>>].isDir)

RECURSIVE Normalize(_, _)
\* the normalisation path.join applies to the segments it joins: empty
\* segments and "." are dropped and ".." removes the segment before it (at
\* the root of the file system it has nothing to remove)
Normalize(path, segments) ==
  IF segments = <<>> THEN path
  ELSE
    LET segment == Head(segments)
        joined ==
          IF segment \in {<<>>, <<".">>} THEN path
          ELSE IF segment = <<".", ".">>
          THEN IF path = <<>> THEN <<>> ELSE SubSeq(path, 1, Len(path) - 1)
          ELSE Append(path, segment)
    IN Normalize(joined, Tail(segments))

\* path.join(__dirname, '..', 'memory-bank', category), relative to the
\* project directory __dirname/..
CategoryPath(category) ==
  Normalize(<<NameMemoryBank>>, Split(category, "/"))

\* the tree of the project directory: memory-bank with the given tree,
\* package.json and scripts; the project directory is taken as the root of
\* the file system
ProjectTree(tree) ==
  LET bank == [p \in {<<NameMemoryBank>> \o q : q \in DOMAIN tree} |->
                 tree[Tail(p)]]
      package == [p \in {q \in {<<NamePackageJson>>} :
                           packageJson.kind # "absent"} |-> File(<<>>)]
      scripts == [p \in {q \in {<<NameScripts>>, <<NameScripts, NameSearchJs>>} :
                           /\ scriptsDir.exists
                           /\ Len(q) = 2 => scriptsDir.search # "none"} |->
                    IF Len(p) = 1 THEN Dir ELSE File(<<>>)]
  IN (<<>> :> Dir) @@ bank @@ package @@ scripts

\* one run of memory-browse.js <category> on a tree: what it prints, what it
\* lists and its exit status.  No category, or the empty one, is falsy (line
\* 241); readdirSync throws, uncaught, for a missing memory-bank (line 246)
\* and for a category path that is not a directory (line 263)
BrowseRun(tree, category) ==
  IF category = <<>>
  THEN IF ~Exists(tree)
       THEN [console |-> <<"Usage: npm run memory:browse <category>",
                           "Available categories:", "uncaught exception">>,
             exitCode |-> 1, results |-> <<>>]
       ELSE [console |-> <<"Usage: npm run memory:browse <category>",
                           "Available categories:">>,
             exitCode |-> 1, results |-> AvailableCategories(tree)]
  ELSE IF CategoryPath(category) \notin DOMAIN ProjectTree(tree)
  THEN [console |-> <<"Category not found">>,
        exitCode |-> 1, results |-> <<>>]
  ELSE IF ~ProjectTree(tree)[CategoryPath(category)].isDir
  THEN [console |-> <<"Browsing", "uncaught exception">>,
        exitCode |-> 1, results |-> <<>>]
  ELSE [console |-> <<"Browsing", "Use memory:search to search within files">>,
        exitCode |-> 0,
        results |-> BrowseDirectory(ProjectTree(tree), CategoryPath(category),
                                    <<>>)]

\* the category arguments a user passes: a missing name, directories, a
\* Markdown file, the index file, the parent directory and a nested directory
BrowseArgs ==
  {NameFoo, NameBar, NameDocs, NameHidden, NameAMd, NameIndexJson,
   <<".", ".">>, NameDocs \o <<"/">> \o NameSub}

\* the tree of Scenario C: the categories bar and baz
ScenarioCTree ==
  [p \in {<<>>, <<NameAMd>>, <<NameBar>>, <<NameBar, NameAMd>>, <<NameBaz>>} |->
     IF p \in {<<NameAMd>>, <<NameBar, NameAMd>>} THEN File(DocTexts[1]) ELSE Dir]

\* a category with Markdown files, another file, a hidden directory and a
\* nested directory below it
DeepCategoryTree ==
  [p \in {<<>>, <<NameAMd>>, <<NameDocs>>, <<NameDocs, NameBMd>>,
          <<NameDocs, NameCTxt>>, <<NameDocs, NameHidden>>,
          <<NameDocs, NameHidden, NameAMd>>, <<NameDocs, NameSub>>,
          <<NameDocs, NameSub, NameAMd>>, <<NameDocs, NameSub, NameBJson>>,
          <<NameDocs, NameSub, NameHiddenMd>>} |->
     IF p \in {<<>>, <<NameDocs>>, <<NameDocs, NameHidden>>, <<NameDocs, NameSub>>}
     THEN Dir ELSE File(DocTexts[1])]

BrowseBanks == SearchBanks \cup {ScenarioCTree, DeepCategoryTree}

InitBrowse ==
  /\ memoryBank \in BrowseBanks \cup {NoTree}
  /\ Shell

\* a run that creates the directory of a category it does not find
BrowseWithMkdir(category) ==
  /\ pc = "shell"
  /\ argv' = category
  /\ console' = BrowseRun(memoryBank, category).console
  /\ exitCode' = BrowseRun(memoryBank, category).exitCode
  /\ results' = BrowseRun(memoryBank, category).results
  /\ pre' = [memoryBank |-> memoryBank, packageJson |-> packageJson,
             scriptsDir |-> scriptsDir, indexFile |-> indexFile]
  /\ pc' = "exited"
  /\ memoryBank' = IF category # <<>> /\ Exists(memoryBank)
                        /\ <<category>> \notin DOMAIN memoryBank
                   THEN Put(memoryBank, <<category>>, Dir) ELSE memoryBank
  /\ UNCHANGED <<indexFile, scaffoldVars>>

\* the one run of memory-browse.js with the given category
BrowseWith(category) ==
  /\ pc = "shell"
  /\ argv' = category
  /\ console' = BrowseRun(memoryBank, category).console
  /\ exitCode' = BrowseRun(memoryBank, category).exitCode
  /\ results' = BrowseRun(memoryBank, category).results
  /\ pre' = [memoryBank |-> memoryBank, packageJson |-> packageJson,
             scriptsDir |-> scriptsDir, indexFile |-> indexFile]
  /\ pc' = "exited"
  /\ UNCHANGED <<memoryBank, indexFile, scaffoldVars>>

Browse == \E category \in BrowseArgs \cup {<<>>} : BrowseWith(category)

NextBrowse == Browse

BrowseSpec == InitBrowse /\ [][NextBrowse]_vars

(***************************************************************************)
(* Properties of the browser                                               *)
(***************************************************************************)
\* the run of memory-browse.js has ended on an existing memory-bank
Browsed ==
  /\ pc = "exited"
  /\ console[1] \in {"Usage: npm run memory:browse <category>",
                     "Category not found", "Browsing"}
  /\ Exists(memoryBank)

\* C14: when the category is omitted or names no entry of the root, Browse
\* lists all the top-level directories, prints no tree and exits nonzero
C14_BadCategoryListsCategories ==
  (Browsed /\ (argv = <<>>
                \/ CategoryPath(argv) \notin DOMAIN ProjectTree(memoryBank))) =>
    /\ exitCode # 0
    /\ console[1] # "Browsing"
    /\ Range(results) =
         {p[1] : p \in {q \in DOMAIN memoryBank :
                          Len(q) = 1 /\ memoryBank[q].isDir}}

(***************************************************************************)
(* Exit status and match content of the search script                      *)
(***************************************************************************)
\* the run of memory-search.js has ended
SearchEnded ==
  /\ pc = "exited"
  /\ console[1] \in {"Usage: npm run memory:search <keyword>", "Searching for"}

\* C15: Search prints the usage message and exits nonzero, whatever the state
\* of memory-bank, exactly when the keyword is omitted or empty; with a
\* keyword and an existing memory-bank it exits with status 0 and prints the
\* no-results message exactly when there is no match
C15_SearchExitStatus ==
  SearchEnded =>
    /\ (console = <<"Usage: npm run memory:search <keyword>">> /\ exitCode # 0)
         <=> argv = <<>>
    /\ argv = <<>> => results = <<>>
    /\ (argv # <<>> /\ Exists(pre.memoryBank)) =>
         /\ exitCode = 0
         /\ Len(console) = 2
         /\ (console[2] = "No results found.") <=> (results = <<>>)

\* a search of a tree with Markdown files that matches nothing, ended with
\* status 0
C15_Witness ==
  /\ SearchEnded
  /\ argv = <<"b", "b">>
  /\ IsFile(pre.memoryBank, <<NameAMd>>)
  /\ IsFile(pre.memoryBank, <<NameDocs, NameBMd>>)
  /\ results = <<>>
  /\ console = <<"Searching for", "No results found.">>
  /\ exitCode = 0

\* c is line without its leading and trailing whitespace
IsTrimOf(c, line) ==
  \E i \in 1..(Len(line) + 1) : \E j \in 0..Len(line) :
    /\ c = SubSeq(line, i, j)
    /\ \A k \in 1..(i - 1) : line[k] \in WhiteSpace
    /\ \A k \in (j + 1)..Len(line) : line[k] \in WhiteSpace
    /\ c # <<>> => (c[1] \notin WhiteSpace /\ c[Len(c)] \notin WhiteSpace)

AuthenticationFlow ==
  <<"A","u","t","h","e","n","t","i","c","a","t","i","o","n"," ","f","l","o","w">>

\* C16: every match carries the path of its file relative to the root, the
\* 1-based number of the matching line in that file and the text of that line
\* without leading and trailing whitespace, its letter case kept; the keyword
\* "auth" gives, for a file with the line "Authentication flow", exactly one
\* match, with that text
C16_MatchCarriesPathLineAndText ==
  Searched =>
    /\ \A k \in 1..Len(results) :
         \E p \in VisibleMarkdown(memoryBank) :
           /\ Split(results[k].file, "/") = p
           /\ results[k].line \in 1..Len(LinesOf(memoryBank[p].content))
           /\ IsSubstring(ToLowerCase(argv),
                          ToLowerCase(LinesOf(memoryBank[p].content)[results[k].line]))
           /\ IsTrimOf(results[k].content,
                       LinesOf(memoryBank[p].content)[results[k].line])
    /\ argv = <<"a","u","t","h">> =>
         \A p \in VisibleMarkdown(memoryBank) :
           memoryBank[p].content = DocTexts[3] =>
             /\ Cardinality({k \in 1..Len(results) :
                               results[k].file = RelativePath(p)}) = 1
             /\ \E k \in 1..Len(results) :
                  results[k] = [file |-> RelativePath(p), line |-> 2,
                                content |-> AuthenticationFlow]

\* the search for "auth" has matched docs/sub/a.md, with the text trimmed
C16_Witness ==
  /\ Searched
  /\ argv = <<"a","u","t","h">>
  /\ results = <<[file |-> RelativePath(<<NameDocs, NameSub, NameAMd>>),
                  line |-> 2, content |-> AuthenticationFlow]>>

(***************************************************************************)
(* A session: the user edits the documents of memory-bank and runs the     *)
(* indexer, the search and the browser, one process after the other.       *)
(***************************************************************************)
\* the contents of the documents of a session: "# T\ntags: [x]\nab", "ab"
\* and " ab\n"
SessionTexts ==
  << <<"#"," ","T","\n","t","a","g","s",":"," ","[","x","]","\n","a","b">>,
     <<"a","b">>,
     <<" ","a","b","\n">> >>

\* the places of the documents of a session and the texts each can hold
SessionSlots ==
  [p \in {<<NameAMd>>, <<NameDocs, NameBMd>>, <<NameHidden, NameAMd>>} |->
     IF p = <<NameAMd>> THEN {1, 2, 3} ELSE {1}]

\* memory-bank at the start of a session: the directories docs and .h
SessionBase == [p \in {<<>>, <<NameDocs>>, <<NameHidden>>} |-> Dir]

InitSession ==
  /\ memoryBank = SessionBase
  /\ Shell

\* the tree without the entry p
RemoveEntry(tree, p) == [q \in (DOMAIN tree) \ {p} |-> tree[q]]

\* the user creates or edits a document; pre, the file system as the running
\* command found it, follows the edits made while no command runs
WriteDocument ==
  /\ pc = "shell"
  /\ \E p \in DOMAIN SessionSlots : \E t \in SessionSlots[p] :
       /\ ~(p \in DOMAIN memoryBank /\ memoryBank[p] = File(SessionTexts[t]))
       /\ memoryBank' = Put(memoryBank, p, File(SessionTexts[t]))
  /\ pre' = [pre EXCEPT !.memoryBank = memoryBank']
  /\ UNCHANGED <<pc, console, exitCode, toolVars, scaffoldVars>>

\* the user deletes a document
DeleteDocument ==
  /\ pc = "shell"
  /\ \E p \in DOMAIN SessionSlots :
       /\ p \in DOMAIN memoryBank
       /\ memoryBank' = RemoveEntry(memoryBank, p)
  /\ pre' = [pre EXCEPT !.memoryBank = memoryBank']
  /\ UNCHANGED <<pc, console, exitCode, toolVars, scaffoldVars>>

\* the user creates, or removes, the hidden directory whose name ends in .md
ToggleHiddenMdDirectory ==
  /\ pc = "shell"
  /\ memoryBank' = IF <<NameHiddenMd>> \in DOMAIN memoryBank
                   THEN RemoveEntry(memoryBank, <<NameHiddenMd>>)
                   ELSE Put(memoryBank, <<NameHiddenMd>>, Dir)
  /\ pre' = [pre EXCEPT !.memoryBank = memoryBank']
  /\ UNCHANGED <<pc, console, exitCode, toolVars, scaffoldVars>>

\* the process has ended and the shell is ready for the next command, on a
\* cleared terminal
NextCommand ==
  /\ pc = "exited"
  /\ pc' = "shell"
  /\ console' = <<>>
  /\ exitCode' = 0
  /\ argv' = <<>>
  /\ results' = <<>>
  /\ pre' = [memoryBank |-> memoryBank, packageJson |-> packageJson,
             scriptsDir |-> scriptsDir, indexFile |-> indexFile]
  /\ UNCHANGED <<memoryBank, indexFile, scaffoldVars>>

\* the keywords and the categories of a session
SessionTerms == {<<>>, <<"a">>, <<"x">>}

SessionCategories == {<<>>, NameDocs, NameFoo, NameAMd, NameIndexJson}

SessionSearch == \E term \in SessionTerms : SearchFor(term)

SessionBrowse == \E category \in SessionCategories : BrowseWith(category)

NextSession ==
  \/ WriteDocument
  \/ DeleteDocument
  \/ ToggleHiddenMdDirectory
  \/ NextCommand
  \/ UpdateIndex
  \/ SessionSearch
  \/ SessionBrowse

SessionSpec == InitSession /\ [][NextSession]_vars

\* the process has ended and the shell is ready for the next command; the
\* output and the exit status of the last command stay on the terminal
NewProcess ==
  /\ pc = "exited"
  /\ pc' = "shell"
  /\ UNCHANGED <<memoryBank, console, exitCode, pre, toolVars, scaffoldVars>>

\* the trees the indexer is run on again and again
RerunBanks ==
  {BankTree(IndexTexts, choice) :
     choice \in {c \in [BankSlots -> 0..Len(IndexTexts)] :
                   \A p \in BankSlots \ {<<NameAMd>>} : c[p] <= 1}}
    \cup {ScenarioATree, HiddenMdTree}

InitRerun ==
  /\ memoryBank \in RerunBanks
  /\ Shell

NextRerun ==
  \/ UpdateIndex
  \/ NewProcess

\* runs of the indexer with no change of the file system between them
RerunSpec == InitRerun /\ [][NextRerun]_vars

(***************************************************************************)
(* Properties of the index over several runs                               *)
(***************************************************************************)
\* a run of memory-update.js has ended
IndexRunEnded ==
  pc = "exited" /\ console # <<>> /\ console[1] = "Updating Memory Bank Index"

\* a run of memory-update.js has ended with the index written
IndexRunSucceeded == IndexRunEnded /\ exitCode = 0

\* C12: the index an indexer run leaves has as keys of files exactly the
\* Markdown files present outside hidden directories at that run, each with
\* the metadata of its content at that run, and no category, tag or listed
\* path that the tree of that run does not give
C12_IndexHoldsNoStaleState ==
  IndexRunSucceeded =>
    /\ indexFile.written
    /\ DOMAIN indexFile.index.files =
         {RelativePath(p) : p \in VisibleMarkdown(pre.memoryBank)}
    /\ \A p \in VisibleMarkdown(pre.memoryBank) :
         indexFile.index.files[RelativePath(p)] =
           FileEntry(RelativePath(SubSeq(p, 1, Len(p) - 1)), p[Len(p)],
                     pre.memoryBank[p].content)
    /\ DOMAIN indexFile.index.categories =
         {RelativePath(d) : d \in VisibleDirs(pre.memoryBank)}
    /\ \A c \in DOMAIN indexFile.index.categories :
         \A r \in Range(indexFile.index.categories[c]) :
           r \in DOMAIN indexFile.index.files /\ indexFile.index.files[r].category = c
    /\ \A t \in DOMAIN indexFile.index.tags :
         /\ indexFile.index.tags[t] # <<>>
         /\ \A r \in Range(indexFile.index.tags[t]) :
              r \in DOMAIN indexFile.index.files
                /\ t \in Range(indexFile.index.files[r].tags)

\* a run over a tree from which docs/b.md, tagged x, was deleted and in which
\* a.md lost its tag since the index before was written
C12_Witness ==
  /\ IndexRunSucceeded
  /\ pre.indexFile.written
  /\ RelativePath(<<NameDocs, NameBMd>>) \in DOMAIN pre.indexFile.index.files
  /\ <<"x">> \in DOMAIN pre.indexFile.index.tags
  /\ DOMAIN indexFile.index.files = {NameAMd}
  /\ DOMAIN indexFile.index.tags = {}
  /\ IsFile(pre.memoryBank, <<NameHidden, NameAMd>>)

\* an index without its updated field
WithoutUpdated(index) ==
  [files |-> index.files, categories |-> index.categories, tags |-> index.tags]

\* C13: a run of the indexer over the file system that the run before left,
\* its index file included, writes the same index but for the updated field
C13_RerunWritesSameIndex ==
  (IndexRunSucceeded /\ pre.indexFile.written) =>
    /\ IndexPath \in DOMAIN pre.memoryBank
    /\ WithoutUpdated(indexFile.index) = WithoutUpdated(pre.indexFile.index)

\* a second run, at another instant, over a tree with documents and tags
C13_Witness ==
  /\ IndexRunSucceeded
  /\ pre.indexFile.written
  /\ pre.indexFile.index.updated # indexFile.index.updated
  /\ NameAMd \in DOMAIN indexFile.index.files
  /\ <<"x">> \in DOMAIN indexFile.index.tags
  /\ IsFile(pre.memoryBank, IndexPath)

\* the entries of a tree that the indexer's walk reads as Markdown files and
\* cannot read: the hidden directories whose name ends in .md
UnreadableEntries(tree) ==
  {p \in DOMAIN tree :
     /\ Len(p) > 0
     /\ tree[p].isDir
     /\ p[Len(p)][1] = "."
     /\ EndsWith(p[Len(p)], ExtMd)
     /\ NotUnderHidden(p)}

\* C17: an indexer run that cannot read an entry ends in an error, never in
\* success, and leaves the index file as it was before the run
C17_ReadFailureKeepsIndex ==
  (IndexRunEnded /\ UnreadableEntries(pre.memoryBank) # {}) =>
    /\ exitCode # 0
    /\ console = <<"Updating Memory Bank Index", "uncaught exception">>
    /\ indexFile = pre.indexFile
    /\ memoryBank = pre.memoryBank

\* a failed run over a tree that holds documents and the index of a run before
C17_Witness ==
  /\ IndexRunEnded
  /\ UnreadableEntries(pre.memoryBank) = {<<NameHiddenMd>>}
  /\ IsFile(pre.memoryBank, <<NameAMd>>)
  /\ IsFile(pre.memoryBank, IndexPath)
  /\ pre.indexFile.written
  /\ indexFile = pre.indexFile
  /\ exitCode = 1

\* the tree without its index file
WithoutIndexFile(tree) == RemoveEntry(tree, <<NameIndexJson>>)

\* C18: Search with the same keyword and Browse with the same category give
\* the same output and exit status on two trees that differ only in the index
\* file
C18_OutputIndependentOfIndex ==
  Exists(memoryBank) =>
    /\ \A term \in SessionTerms \ {<<>>} :
         SearchDirectory(memoryBank, <<>>, term) =
           SearchDirectory(WithoutIndexFile(memoryBank), <<>>, term)
    /\ \A category \in SessionCategories :
         BrowseRun(memoryBank, category) =
           BrowseRun(WithoutIndexFile(memoryBank), category)

\* a run of memory-search.js or memory-browse.js has ended
ReaderRunEnded ==
  /\ pc = "exited"
  /\ console # <<>>
  /\ console[1] \in {"Usage: npm run memory:search <keyword>", "Searching for",
                     "Usage: npm run memory:browse <category>",
                     "Category not found", "Browsing"}

\* C19: no run of Search or Browse, successful or failing, creates, deletes
\* or changes a file or a directory: the documents and the index file are
\* after the run what they were before it
C19_SearchAndBrowseAreReadOnly ==
  ReaderRunEnded =>
    /\ memoryBank = pre.memoryBank
    /\ indexFile = pre.indexFile
    /\ packageJson = pre.packageJson
    /\ scriptsDir = pre.scriptsDir

\* a Browse that failed on the index file of a tree with documents
C19_Witness ==
  /\ ReaderRunEnded
  /\ console = <<"Browsing", "uncaught exception">>
  /\ argv = NameIndexJson
  /\ indexFile.written
  /\ IsFile(memoryBank, <<NameAMd>>)
  /\ IsFile(memoryBank, <<NameDocs, NameBMd>>)

\* C20: an indexer run changes no file but .index.json at the root of
\* memory-bank: every other entry of the tree is after the run what it was
\* before it
C20_IndexerWritesOnlyIndexFile ==
  IndexRunEnded =>
    /\ (DOMAIN memoryBank) \ {<<NameIndexJson>>}
         = (DOMAIN pre.memoryBank) \ {<<NameIndexJson>>}
    /\ \A p \in (DOMAIN memoryBank) \ {<<NameIndexJson>>} :
         memoryBank[p] = pre.memoryBank[p]
    /\ packageJson = pre.packageJson
    /\ scriptsDir = pre.scriptsDir

\* a run that has written the index of a tree whose a.md ends in a blank line
C20_Witness ==
  /\ IndexRunSucceeded
  /\ IsFile(memoryBank, <<NameIndexJson>>)
  /\ <<NameIndexJson>> \notin DOMAIN pre.memoryBank
  /\ IsFile(memoryBank, <<NameAMd>>)
  /\ memoryBank[<<NameAMd>>].content = SessionTexts[3]
  /\ IsFile(memoryBank, <<NameHidden, NameAMd>>)

(***************************************************************************)
(* Completeness of the browse tree                                         *)
(***************************************************************************)
\* the entries of the tree below the directory dir, at all depths
Below(tree, dir) ==
  {p \in DOMAIN tree : Len(p) > Len(dir) /\ SubSeq(p, 1, Len(dir)) = dir}

\* the lines of the printed tree of the given kind
Printed(kind) == {i \in DOMAIN results : results[i].kind = kind}

\* the line the browser prints for the entry p below a category
BrowseLine(p) ==
  [kind |-> IF memoryBank[p].isDir THEN "directory" ELSE "file",
   indent |-> [i \in 1..(2 * (Len(p) - 2)) |-> " "],
   name |-> p[Len(p)]]

\* the run browsed a directory directly under the root
BrowsedCategory ==
  /\ Browsed
  /\ argv # <<>>
  /\ <<argv>> \in DOMAIN memoryBank
  /\ memoryBank[<<argv>>].isDir

\* C21: for an existing category directory the printed tree has one leaf
\* entry for each Markdown file and one folder header for each subdirectory,
\* hidden or not, below the category at all depths, and no entry for any
\* other file
C21_BrowseListsEachEntryOnce ==
  BrowsedCategory =>
    LET below == Below(memoryBank, <<argv>>)
        markdown == {p \in below : ~memoryBank[p].isDir
                                     /\ EndsWith(p[Len(p)], ExtMd)}
        directories == {p \in below : memoryBank[p].isDir}
    IN /\ Cardinality(Printed("file")) = Cardinality(markdown)
       /\ Cardinality(Printed("directory")) = Cardinality(directories)
       /\ Range(results) = {BrowseLine(p) : p \in markdown \cup directories}

C21_Witness ==
  /\ BrowsedCategory
  /\ memoryBank = DeepCategoryTree
  /\ argv = NameDocs
  /\ Cardinality(Printed("file")) = 4
  /\ Cardinality(Printed("directory")) = 2
  /\ Len(results) = 6

(***************************************************************************)
(* The title of an index entry                                             *)
(***************************************************************************)
\* the line is a level-1 heading: "#", whitespace, and text on the same line
IsHeadingLine(line) ==
  /\ Len(line) >= 3
  /\ line[1] = "#"
  /\ line[2] \in WhiteSpace
  /\ FirstNotIn(line, 2, WhiteSpace) <= Len(line)

\* the text of a heading line, after "#" and the whitespace
HeadingText(line) == SubSeq(line, FirstNotIn(line, 2, WhiteSpace), Len(line))

\* the name of a Markdown file without its extension
WithoutExtension(file) == SubSeq(file, 1, Len(file) - Len(ExtMd))

\* the title the rule gives to the file named file with the given content
TitleByRule(file, content) ==
  LET lines == LinesOf(content)
      headings == {k \in 1..Len(lines) : IsHeadingLine(lines[k])}
  IN IF headings # {} THEN HeadingText(lines[Least(headings)])
     ELSE WithoutExtension(file)

\* C22: the title of every entry is the text of the first line of the file
\* that is a level-1 heading ("#", whitespace and text on that same line),
\* and the file's name without .md when no line is one
C22_TitleIsFirstHeadingLine ==
  Indexed =>
    \A r \in IndexedPaths : \A p \in PlacesOf(pre.memoryBank, r) :
      indexFile.index.files[r].title =
        TitleByRule(p[Len(p)], pre.memoryBank[p].content)

(***************************************************************************)
(* The tag map of the index                                                *)
(***************************************************************************)
\* how many times the path r is listed under the tag t
TimesListed(t, r) ==
  IF t \in DOMAIN indexFile.index.tags
  THEN Cardinality({i \in DOMAIN indexFile.index.tags[t] :
                      indexFile.index.tags[t][i] = r})
  ELSE 0

\* C23: a path is listed under a tag exactly when the tag is among the tags
\* of the path's entry, and then it is listed once; a file without the text
\* "tags:" has no tags and is listed under no tag
C23_TagMapIsInverseOfEntryTags ==
  Indexed =>
    /\ \A t \in DOMAIN indexFile.index.tags :
         \A i \in DOMAIN indexFile.index.tags[t] :
           indexFile.index.tags[t][i] \in IndexedPaths
    /\ \A r \in IndexedPaths :
         LET tags == Range(indexFile.index.files[r].tags)
         IN /\ \A t \in tags \cup DOMAIN indexFile.index.tags :
                 TimesListed(t, r) = IF t \in tags THEN 1 ELSE 0
            /\ \A p \in PlacesOf(pre.memoryBank, r) :
                 ~Includes(pre.memoryBank[p].content, <<"t","a","g","s",":">>) =>
                   tags = {}

(***************************************************************************)
(* The categories the browser accepts                                      *)
(***************************************************************************)
\* the argument names an existing directory directly under the root
IsFirstLevelCategory ==
  /\ <<argv>> \in DOMAIN memoryBank
  /\ memoryBank[<<argv>>].isDir

\* C24: Browse prints a tree only when its argument names an existing
\* directory directly under the root; for every other argument (a regular
\* file of the root, a path with ".." or separators) it reports that the
\* category was not found, exits nonzero and lists nothing
C24_BrowseAcceptsOnlyFirstLevelCategories ==
  (Browsed /\ argv # <<>>) =>
    IF IsFirstLevelCategory
    THEN console[1] = "Browsing" /\ exitCode = 0
    ELSE console = <<"Category not found">> /\ exitCode # 0 /\ results = <<>>

(***************************************************************************)
(* The order of the search results                                         *)
(***************************************************************************)
\* the position of a name in the enumeration of a directory
EnumerationIndex(name) == CHOOSE i \in DOMAIN DirOrder : DirOrder[i] = name

\* the file at path p is visited before the file at path q by a depth-first
\* walk that takes each directory's entries in enumeration order
VisitedBefore(p, q) ==
  \E k \in 1..Len(p) :
    /\ k <= Len(q)
    /\ SubSeq(p, 1, k - 1) = SubSeq(q, 1, k - 1)
    /\ p[k] # q[k]
    /\ EnumerationIndex(p[k]) < EnumerationIndex(q[k])

\* C25: the matches are returned file by file in the order of the depth-first
\* walk, those of one file next to each other and by increasing line number
C25_ResultsInTraversalOrder ==
  Searched =>
    \A i, j \in DOMAIN results :
      i < j =>
        IF results[i].file = results[j].file
        THEN /\ results[i].line < results[j].line
             /\ \A k \in i..j : results[k].file = results[i].file
        ELSE VisitedBefore(Split(results[i].file, "/"),
                           Split(results[j].file, "/"))

C25_Witness ==
  /\ Searched
  /\ pre.memoryBank = OrderTree
  /\ argv = <<"b">>
  /\ Len(results) = 8
  /\ results[2].file = NameAMd /\ results[2].line = 2
  /\ results[3].file = JoinPath(NameDocs, NameBMd)
  /\ results[5].file = JoinPath(JoinPath(NameDocs, NameSub), NameAMd)
  /\ results[7].file = NameOldMd

(***************************************************************************)
(* A confirmed overwrite                                                   *)
(***************************************************************************)
\* the scaffold succeeded on a destination that existed, after y or Y
Overwritten ==
  /\ Succeeded
  /\ Exists(pre.memoryBank)
  /\ overwrite.asked
  /\ overwrite.answer \in {<<"y">>, <<"Y">>}

\* what a scaffold into an empty destination leaves at the path p
Scaffolded(p) ==
  IF p = ActivePath THEN File(ActiveContext(answers, date))
  ELSE IF ~template[p].isDir /\ IsTextName(p[Len(p)])
  THEN File(ApplyReplacements(template[p].content, Replacements(answers, date)))
  ELSE template[p]

\* C26: after a successful scaffold over an existing destination, confirmed
\* with y or Y, the destination holds exactly the template's entries plus
\* context/active.md; no entry that only the old destination had remains and
\* no entry has the content the old destination had
C26_OverwriteIsDeleteThenCopy ==
  Overwritten =>
    /\ DOMAIN memoryBank = (DOMAIN template) \cup {ActivePath}
    /\ \A p \in DOMAIN pre.memoryBank :
         p \notin (DOMAIN template) \cup {ActivePath} => p \notin DOMAIN memoryBank
    /\ \A p \in DOMAIN memoryBank : memoryBank[p] = Scaffolded(p)

C26_Witness ==
  /\ Overwritten
  /\ pre.memoryBank = OldBank
  /\ overwrite.answer = <<"Y">>
  /\ <<NameOldMd>> \notin DOMAIN memoryBank
  /\ memoryBank[<<NameAMd>>] # pre.memoryBank[<<NameAMd>>]
  /\ IsFile(memoryBank, ActivePath)

(***************************************************************************)
(* The category lists of the index                                         *)
(***************************************************************************)
\* how many times the path r is listed under the category c
TimesInCategory(c, r) ==
  Cardinality({i \in DOMAIN indexFile.index.categories[c] :
                 indexFile.index.categories[c][i] = r})

ScannedFiles(tree) ==
  {r.file : r \in Range(SearchDirectory(tree, <<>>, <<>>))}

\* C28: on a tree whose regular files are all readable the indexer run does
\* not fail, and the keys of its files map are the Markdown files the search
\* script scans: those in no hidden directory, the ones of the root and the
\* ones whose own name starts with a dot included
C28_IndexerAndSearchCoverSameFiles ==
  (pc = "exited" /\ Exists(pre.memoryBank)) =>
    /\ exitCode = 0
    /\ indexFile.written
    /\ IndexedPaths = ScannedFiles(pre.memoryBank)
    /\ IndexedPaths = {RelativePath(p) : p \in VisibleMarkdown(pre.memoryBank)}

(***************************************************************************)
(* The scaffolder run twice                                                *)
(***************************************************************************)
\* a successful run that started on what a successful run had left: the
\* generated context file and the search script were there
Rescaffolded ==
  /\ Succeeded
  /\ IsFile(pre.memoryBank, ActivePath)
  /\ pre.scriptsDir = [exists |-> TRUE, search |-> "searchScript", mode |-> "755"]

\* C29: a second run with the same answers and date that confirms the
\* overwrite leaves memory-bank, package.json and scripts/memory-search.js
\* exactly as the first run left them
C29_SecondRunChangesNothing ==
  Rescaffolded =>
    /\ overwrite.asked
    /\ memoryBank = pre.memoryBank
    /\ packageJson = pre.packageJson
    /\ scriptsDir = pre.scriptsDir

C29_Witness ==
  /\ Rescaffolded
  /\ overwrite.answer = <<"y">>
  /\ answers.projectName = <<"$", "&">>
  /\ packageJson.kind = "object"
  /\ "test" \in DOMAIN packageJson.scripts
  /\ memoryBank = pre.memoryBank
  /\ memoryBank[<<NameAMd>>].content = <<"H","i"," ">> \o TokProjectName \o <<"!">>

(***************************************************************************)
(* The merge into package.json                                             *)
(***************************************************************************)
\* the names of the scripts the scaffolder adds
MemoryScriptNames ==
  {"memory:search", "memory:browse", "memory:overview", "memory:update"}

\* C30: after a successful scaffold an existing package.json has the four
\* memory:* scripts, each running its script of scripts/, every other script
\* and every other field as before; a package.json that did not exist still
\* does not exist
C30_PackageJsonIsMerged ==
  Succeeded =>
    IF pre.packageJson.kind = "absent"
    THEN packageJson = pre.packageJson
    ELSE /\ packageJson.kind = "object"
         /\ packageJson.hasScripts
         /\ packageJson.scripts["memory:search"] = "node scripts/memory-search.js"
         /\ packageJson.scripts["memory:browse"] = "node scripts/memory-browse.js"
         /\ packageJson.scripts["memory:overview"] = "node scripts/memory-overview.js"
         /\ packageJson.scripts["memory:update"] = "node scripts/memory-update.js"
         /\ DOMAIN packageJson.scripts =
              MemoryScriptNames \cup
                (IF pre.packageJson.hasScripts
                 THEN DOMAIN pre.packageJson.scripts ELSE {})
         /\ \A k \in (DOMAIN packageJson.scripts) \ MemoryScriptNames :
              packageJson.scripts[k] = pre.packageJson.scripts[k]
         /\ packageJson.name = pre.packageJson.name

\* a merge into a package.json that had a test script and an old
\* memory:search script
C30_Witness ==
  /\ Succeeded
  /\ pre.packageJson.kind = "object"
  /\ pre.packageJson.hasScripts
  /\ pre.packageJson.scripts["memory:search"] = "old"
  /\ packageJson.scripts["test"] = "jest"
  /\ packageJson.scripts["memory:search"] = "node scripts/memory-search.js"
  /\ packageJson.name = "app"

\* a successful scaffold without a package.json
C30_WitnessAbsent ==
  /\ Succeeded
  /\ pre.packageJson.kind = "absent"
  /\ packageJson.kind = "absent"

====
